---- MODULE Spec2Model ----
(***************************************************************************)
(* Dotprompt: the post-render message/part parser and the document parser  *)
(* of js/src/parse.ts, with the marker helpers of the helper set.          *)
(*                                                                         *)
(* Strings are sequences of atomic lexemes (TLA+ strings): a lexeme stands *)
(* for the characters it spells, CharLen gives their number, and the       *)
(* regular expressions, startsWith, substring, split and trim of the       *)
(* source are computed on those sequences.  No lexeme spells a proper part *)
(* of a marker prefix, so matching on lexemes agrees with matching on      *)
(* characters for every string that is spelled with them.                  *)
(***************************************************************************)
EXTENDS Integers, Sequences, FiniteSets, TLC

VARIABLES
    ihMessages,   \* insertHistory: the `messages` argument
    ihHistory,    \* insertHistory: the `history` argument
    ihOut,        \* insertHistory: the returned list
    ihPc,         \* "build" while the arguments are assembled, "done" after the call
    rendered,     \* the rendered template string (helper output and literal text)
    emitted,      \* log of what the template emitted: <<kind, argument>> per emission
    dataMessages, \* data?.messages handed to toMessages
    messages,     \* the list returned by toMessages
    msgPc,        \* "render" while the template emits, "done" after toMessages
    source,       \* the .prompt document handed to parseDocument
    docPhase,     \* which part of the document is being written
    parsed,       \* the ParsedPrompt returned by parseDocument
    parsedEol,    \* parseDocument of the same document saved with CRLF and with CR
    docPc,        \* "write" while the document is assembled, "done" after parseDocument
    pico,         \* the schema handed to Picoschema
    picoResolver, \* whether the PicoschemaOptions hold a SchemaResolver
    picoOut,      \* what Picoschema returned
    picoPc,       \* "start", "build" while the schema is written, "done" after the call
    picoStore,    \* the schema objects the SchemaResolver holds and returns, by name
    picoAfter,    \* the caller's schema value as the call left it
    picoLater,    \* a later call with the bare name of a schema, and its outcome
    partials,        \* handlebars.partials: the engine's registered partials
    partialResolver, \* the engine's partialResolver option
    template,        \* the template handed to compile
    partialsBefore,  \* handlebars.partials as compile found it
    tools,           \* the engine's static tool registry
    toolResolver,    \* the engine's toolResolver option
    toolBase,        \* the metadata handed to resolveTools
    toolOut,         \* what resolveTools returned
    defaultModel,    \* the engine's defaultModel option
    modelConfigs,    \* the engine's modelConfigs option
    parsedMetadata,  \* the frontmatter of the prompt handed to render
    renderData,      \* the `data` argument of render
    renderOptions,   \* the `options` argument of render
    renderOut,       \* what render returned
    renderOut2,      \* what the same render call returned the second time
    helpers,         \* handlebars.helpers: the function registered per name
    knownHelpers,    \* the names the engine passes to handlebars.compile
    lastDefine,      \* the last defineHelper call and what it found
    envPc,           \* "new", "ready" once constructed, then the call made
    dp,              \* the Go Dotprompt engine: its registries
    dpCall,          \* the last call made on it, what it found and returned
    dpLog,           \* per schema name, the schema of the last DefineSchema
    inFlight,        \* resolver calls invoked and not settled, per resolver and name
    invoked,         \* resolver calls invoked so far, per resolver and name
    defined,         \* per partial name, the definePartial calls resolvePartials made
    asyncOut,        \* the `out` object resolveTools fills as its callbacks run
    schemaEnv        \* the prompt's output schema, the schemas and the schemaResolver

vars == <<ihMessages, ihHistory, ihOut, ihPc,
          rendered, emitted, dataMessages, messages, msgPc,
          source, docPhase, parsed, parsedEol, docPc,
          pico, picoResolver, picoOut, picoPc, picoStore, picoAfter, picoLater,
          partials, partialResolver, template, partialsBefore,
          tools, toolResolver, toolBase, toolOut,
          defaultModel, modelConfigs, parsedMetadata, renderData,
          renderOptions, renderOut, renderOut2,
          helpers, knownHelpers, lastDefine, envPc,
          dp, dpCall, dpLog,
          inFlight, invoked, defined, asyncOut, schemaEnv>>

ihVars  == <<ihMessages, ihHistory, ihOut, ihPc>>
msgVars == <<rendered, emitted, dataMessages, messages, msgPc>>
docVars == <<source, docPhase, parsed, parsedEol, docPc>>
picoVars == <<pico, picoResolver, picoOut, picoPc, picoStore, picoAfter, picoLater>>
partialVars == <<partials, partialResolver, template, partialsBefore>>
toolVars == <<tools, toolResolver, toolBase, toolOut>>
renderVars == <<defaultModel, modelConfigs, parsedMetadata, renderData,
                renderOptions, renderOut, renderOut2>>
helperVars == <<helpers, knownHelpers, lastDefine>>
envVars == <<partialVars, toolVars, renderVars, helperVars, envPc>>
dpVars == <<dp, dpCall, dpLog>>
asyncVars == <<inFlight, invoked, defined, asyncOut, schemaEnv>>

(***************************************************************************)
(* Bounds of the model.                                                    *)
(***************************************************************************)
MaxMessages == 2   \* length of the `messages` argument of insertHistory
MaxHistory  == 2   \* number of caller history messages
MaxEmit     == 3   \* emissions of one rendered template
MaxEntries  == 2   \* frontmatter entries of one document
MaxDepth    == 2   \* nesting of mappings in a Picoschema
MaxProps    == 2   \* keys of the innermost mapping of a Picoschema
MaxBody     == 1   \* body lexemes of one document

(***************************************************************************)
(* Generic helpers.                                                        *)
(***************************************************************************)
Last(s) == s[Len(s)]

Front(s) == SubSeq(s, 1, Len(s) - 1)

Drop(s, n) == SubSeq(s, n + 1, Len(s))

RECURSIVE Flatten(_)
Flatten(ss) == IF ss = <<>> THEN <<>> ELSE Head(ss) \o Flatten(Tail(ss))

RECURSIVE Repeat(_, _)
Repeat(s, n) == IF n = 0 THEN <<>> ELSE s \o Repeat(s, n - 1)

SetMax(S) == CHOOSE x \in S : \A y \in S : y <= x

SetMin(S) == CHOOSE x \in S : \A y \in S : x <= y

(***************************************************************************)
(* Optional values: JavaScript `undefined`, `null`, or a list.             *)
(***************************************************************************)
Undefined == [kind |-> "undefined"]

Null == [kind |-> "null"]

Some(l) == [kind |-> "list", list |-> l]

(***************************************************************************)
(* Messages.  A field that is undefined in JavaScript is an absent field.  *)
(***************************************************************************)
HasPurposeHistory(m) ==
    /\ "metadata" \in DOMAIN m
    /\ "purpose" \in DOMAIN m.metadata
    /\ m.metadata.purpose = "history"

(* insertHistory(messages, history = []) *)
InsertHistoryAppendOnly(msgs, history) ==
    LET h == IF history.kind = "list" THEN history.list ELSE <<>>
    IN  IF history.kind = "null" \/ \E i \in 1..Len(msgs) : HasPurposeHistory(msgs[i])
        THEN msgs
        ELSE msgs \o h

InsertHistory(msgs, history) ==
    LET h == IF history.kind = "list" THEN history.list ELSE <<>>
    IN  IF history.kind = "null" \/ \E i \in 1..Len(msgs) : HasPurposeHistory(msgs[i])
        THEN msgs
        ELSE IF Len(msgs) > 0 /\ Last(msgs).role = <<"user">>
             THEN Front(msgs) \o h \o <<Last(msgs)>>
             ELSE msgs \o h

(***************************************************************************)
(* Strings as lexeme sequences.                                            *)
(***************************************************************************)
CharLen(x) ==
    CASE x = "<<<"        -> 3
      [] x = ">>>"        -> 3
      [] x = "dotprompt:" -> 10
      [] x = "role:"      -> 5
      [] x = "ROLE:"      -> 5
      [] x = "role"       -> 4
      [] x = "MEDIA:"     -> 6
      [] x = "history"    -> 7
      [] x = "media:"     -> 6
      [] x = "url"        -> 3
      [] x = "section"    -> 7
      [] x = "user"       -> 4
      [] x = "model"      -> 5
      [] x = "undefined"  -> 9
      [] OTHER            -> 1

(* [a-z] : the lexemes spelled with lowercase letters only *)
LowerCase == {"history", "url", "section", "user", "model", "undefined", "a", "b"}

(* \s *)
WhiteSpace == {" ", "\n", "\r"}

(* String.prototype.trim() !== '' *)
NonBlank(s) == \E i \in 1..Len(s) : s[i] \notin WhiteSpace

(* String.prototype.startsWith *)
StartsWith(s, prefix) ==
    /\ Len(s) >= Len(prefix)
    /\ SubSeq(s, 1, Len(prefix)) = prefix

(* String.prototype.substring(n): drops the lexemes that spell the first n characters *)
RECURSIVE Substring(_, _)
Substring(s, n) ==
    IF n <= 0 \/ s = <<>> THEN s ELSE Substring(Tail(s), n - CharLen(Head(s)))

(* String.prototype.split(' ') *)
RECURSIVE SplitOnSpace(_, _)
SplitOnSpace(s, cur) ==
    IF s = <<>> THEN <<cur>>
    ELSE IF Head(s) = " " THEN <<cur>> \o SplitOnSpace(Tail(s), <<>>)
    ELSE SplitOnSpace(Tail(s), Append(cur, Head(s)))

ROLE_MARKER_PREFIX == <<"<<<", "dotprompt:", "role:">>

HISTORY_MARKER_PREFIX == <<"<<<", "dotprompt:", "history">>

MEDIA_MARKER_PREFIX == <<"<<<", "dotprompt:", "media:">>

SECTION_MARKER_PREFIX == <<"<<<", "dotprompt:", "section">>

(***************************************************************************)
(* ROLE_AND_HISTORY_MARKER_REGEX = /(<<<dotprompt:(?:role:[a-z]+|history))>>>/g *)
(* The index of the closing >>> of the match that starts at i, 0 if none.  *)
(***************************************************************************)
RoleHistoryMatchEnd(s, i) ==
    IF ~(i + 2 <= Len(s) /\ s[i] = "<<<" /\ s[i + 1] = "dotprompt:") THEN 0
    ELSE IF s[i + 2] = "role:"
    THEN LET ends == { j \in (i + 4)..Len(s) :
                         /\ s[j] = ">>>"
                         /\ \A k \in (i + 3)..(j - 1) : s[k] \in LowerCase }
         IN  IF ends = {} THEN 0 ELSE SetMin(ends)
    ELSE IF s[i + 2] = "history" /\ i + 3 <= Len(s) /\ s[i + 3] = ">>>" THEN i + 3
    ELSE 0

(***************************************************************************)
(* MEDIA_AND_SECTION_MARKER_REGEX = /(<<<dotprompt:(?:media:url|section).*?)>>>/g *)
(* `.` does not match a line terminator and `.*?` stops at the first >>>.  *)
(***************************************************************************)
MediaSectionMatchEnd(s, i) ==
    IF ~(i + 2 <= Len(s) /\ s[i] = "<<<" /\ s[i + 1] = "dotprompt:") THEN 0
    ELSE LET k == IF s[i + 2] = "media:" /\ i + 3 <= Len(s) /\ s[i + 3] = "url" THEN i + 4
                  ELSE IF s[i + 2] = "section" THEN i + 3
                  ELSE 0
             ends == { j \in k..Len(s) :
                         /\ s[j] = ">>>"
                         /\ \A m \in k..(j - 1) : s[m] # "\n" }
         IN  IF k = 0 \/ ends = {} THEN 0 ELSE SetMin(ends)

(***************************************************************************)
(* String.prototype.split(regex) with one capturing group: the text before *)
(* each match, then the capture (the match without its >>>), and the text  *)
(* after the last match.  i scans, from is where the pending text starts.  *)
(***************************************************************************)
RECURSIVE SplitRoleHistory(_, _, _)
SplitRoleHistory(s, i, from) ==
    IF i > Len(s) THEN <<SubSeq(s, from, Len(s))>>
    ELSE LET e == RoleHistoryMatchEnd(s, i)
         IN  IF e = 0 THEN SplitRoleHistory(s, i + 1, from)
             ELSE <<SubSeq(s, from, i - 1), SubSeq(s, i, e - 1)>>
                  \o SplitRoleHistory(s, e + 1, e + 1)

RECURSIVE SplitMediaSection(_, _, _)
SplitMediaSection(s, i, from) ==
    IF i > Len(s) THEN <<SubSeq(s, from, Len(s))>>
    ELSE LET e == MediaSectionMatchEnd(s, i)
         IN  IF e = 0 THEN SplitMediaSection(s, i + 1, from)
             ELSE <<SubSeq(s, from, i - 1), SubSeq(s, i, e - 1)>>
                  \o SplitMediaSection(s, e + 1, e + 1)

(* .filter((s) => s.trim() !== '') *)
FilterNonBlank(pieces) == SelectSeq(pieces, NonBlank)

(* splitByRoleAndHistoryMarkers *)
splitByRoleAndHistoryMarkers(renderedString) ==
    FilterNonBlank(SplitRoleHistory(renderedString, 1, 1))

(* splitByMediaAndSectionMarkers *)
splitByMediaAndSectionMarkers(src) ==
    FilterNonBlank(SplitMediaSection(src, 1, 1))

(***************************************************************************)
(* toParts                                                                 *)
(***************************************************************************)
MediaPart(piece) ==
    LET f == SplitOnSpace(piece, <<>>)
    IN  IF Len(f) < 2 THEN [media |-> <<>>]
        ELSE IF Len(f) >= 3 /\ f[3] # <<>>
        THEN [media |-> [url |-> f[2], contentType |-> f[3]]]
        ELSE [media |-> [url |-> f[2]]]

PendingPart(piece) ==
    LET f == SplitOnSpace(piece, <<>>)
    IN  IF Len(f) < 2 THEN [metadata |-> [pending |-> TRUE]]
        ELSE [metadata |-> [purpose |-> f[2], pending |-> TRUE]]

TextPart(t) == [text |-> t]

ToPartAnyPrefix(piece) ==
    IF StartsWith(piece, <<"<<<", "dotprompt:">>) THEN MediaPart(piece)
    ELSE TextPart(piece)

ToPart(piece) ==
    IF StartsWith(piece, MEDIA_MARKER_PREFIX) THEN MediaPart(piece)
    ELSE IF StartsWith(piece, SECTION_MARKER_PREFIX) THEN PendingPart(piece)
    ELSE TextPart(piece)

toParts(src) ==
    LET pieces == splitByMediaAndSectionMarkers(src)
    IN  [i \in 1..Len(pieces) |-> ToPart(pieces[i])]

(***************************************************************************)
(* transformMessagesToHistory                                              *)
(***************************************************************************)
WithHistoryPurpose(m) ==
    LET md == IF "metadata" \in DOMAIN m THEN m.metadata ELSE <<>>
        nd == [k \in DOMAIN md \cup {"purpose"} |->
                 IF k = "purpose" THEN "history" ELSE md[k]]
    IN  [k \in DOMAIN m \cup {"metadata"} |-> IF k = "metadata" THEN nd ELSE m[k]]

transformMessagesToHistoryDropsMetadata(msgs) ==
    [i \in 1..Len(msgs) |->
        [k \in DOMAIN msgs[i] \cup {"metadata"} |->
            IF k = "metadata" THEN [purpose |-> "history"] ELSE msgs[i][k]]]

transformMessagesToHistory(msgs) ==
    [i \in 1..Len(msgs) |-> WithHistoryPurpose(msgs[i])]

(***************************************************************************)
(* toMessages.  currentMessage is always the last element of               *)
(* messageSources, which the loop mutates in place.                        *)
(***************************************************************************)
SetLast(seq, m) == [seq EXCEPT ![Len(seq)] = m]

WalkPieceNeverOpens(messageSources, piece, dataMsgs) ==
    LET currentMessage == Last(messageSources)
    IN  IF StartsWith(piece, ROLE_MARKER_PREFIX)
        THEN SetLast(messageSources, [currentMessage EXCEPT !.role = Substring(piece, 18)])
        ELSE IF StartsWith(piece, HISTORY_MARKER_PREFIX)
        THEN messageSources
             \o (IF dataMsgs.kind = "list" THEN transformMessagesToHistory(dataMsgs.list) ELSE <<>>)
             \o <<[role |-> <<"model">>, source |-> <<>>]>>
        ELSE SetLast(messageSources,
                     [currentMessage EXCEPT !.source = currentMessage.source \o piece])

WalkPiece(messageSources, piece, dataMsgs) ==
    LET currentMessage == Last(messageSources)
    IN  IF StartsWith(piece, ROLE_MARKER_PREFIX)
        THEN LET role == Substring(piece, 18)
             IN  IF NonBlank(currentMessage.source)
                 THEN Append(messageSources, [role |-> role, source |-> <<>>])
                 ELSE SetLast(messageSources, [currentMessage EXCEPT !.role = role])
        ELSE IF StartsWith(piece, HISTORY_MARKER_PREFIX)
        THEN messageSources
             \o (IF dataMsgs.kind = "list" THEN transformMessagesToHistory(dataMsgs.list) ELSE <<>>)
             \o <<[role |-> <<"model">>, source |-> <<>>]>>
        ELSE SetLast(messageSources,
                     [currentMessage EXCEPT !.source = currentMessage.source \o piece])

RECURSIVE WalkPieces(_, _, _)
WalkPieces(messageSources, pieces, dataMsgs) ==
    IF pieces = <<>> THEN messageSources
    ELSE WalkPieces(WalkPiece(messageSources, Head(pieces), dataMsgs), Tail(pieces), dataMsgs)

KeepSourceAlways(ms) == TRUE

(* .filter((ms) => ms.content || ms.source) *)
KeepSource(ms) ==
    \/ "content" \in DOMAIN ms
    \/ ("source" \in DOMAIN ms /\ ms.source # <<>>)

SourceToMessage(m) ==
    LET content == IF "content" \in DOMAIN m THEN m.content ELSE toParts(m.source)
    IN  IF "metadata" \in DOMAIN m
        THEN [role |-> m.role, content |-> content, metadata |-> m.metadata]
        ELSE [role |-> m.role, content |-> content]

(* the `messages` constant of toMessages: the filtered and mapped messageSources *)
RenderedMessages(renderedString, dataMsgs) ==
    LET messageSources ==
            WalkPieces(<<[role |-> <<"user">>, source |-> <<>>]>>,
                       splitByRoleAndHistoryMarkers(renderedString), dataMsgs)
        kept == SelectSeq(messageSources, KeepSource)
    IN  [i \in 1..Len(kept) |-> SourceToMessage(kept[i])]

toMessages(renderedString, dataMsgs) ==
    InsertHistory(RenderedMessages(renderedString, dataMsgs), dataMsgs)

(***************************************************************************)
(* Values the callers of insertHistory and toMessages pass.                *)
(***************************************************************************)
Msg(r, t) == [role |-> <<r>>, content |-> <<TextPart(<<t>>)>>]

MsgMeta(r, t, md) == [role |-> <<r>>, content |-> <<TextPart(<<t>>)>>, metadata |-> md]

CurrentMessages ==
    { Msg("user", "a"), Msg("model", "a"),
      MsgMeta("user", "a", [purpose |-> "history"]),
      MsgMeta("model", "a", [foo |-> "bar"]) }

HistoryMessages ==
    { Msg("user", "h1"), Msg("model", "h2"),
      MsgMeta("model", "h3", [foo |-> "bar"]),
      [role |-> <<"user">>, content |-> <<>>] }

(***************************************************************************)
(* Document parser.  A frontmatter key is a lexeme sequence in which "."   *)
(* is a lexeme of its own; a frontmatter line is KEY ":" " " VALUE.        *)
(***************************************************************************)
RESERVED_METADATA_KEYWORDS_NoVariant ==
    { "config", "description", "ext", "input", "model", "name", "output", "raw",
      "toolDefs", "tools", "version" }

RESERVED_METADATA_KEYWORDS ==
    { "config", "description", "ext", "input", "model", "name", "output", "raw",
      "toolDefs", "tools", "variant", "version" }

(* RESERVED_METADATA_KEYWORDS.includes(key) *)
IsReserved(key) == Len(key) = 1 /\ key[1] \in RESERVED_METADATA_KEYWORDS

(* key.includes('.') *)
IsDotted(key) == \E i \in 1..Len(key) : key[i] = "."

(* A value of the parsed document carries its type: a YAML scalar is a     *)
(* string, `{}` and the mappings built by the parser are objects.          *)
Str(s) == [type |-> "string", val |-> s]
Obj(f) == [type |-> "object", val |-> f]

(* BASE_METADATA *)
BASE_METADATA == [ext |-> Obj(<<>>), metadata |-> Obj(<<>>), config |-> Obj(<<>>)]

(* String.prototype.trim *)
Trim(s) ==
    IF ~NonBlank(s) THEN <<>>
    ELSE SubSeq(s, SetMin({i \in 1..Len(s) : s[i] \notin WhiteSpace}),
                   SetMax({i \in 1..Len(s) : s[i] \notin WhiteSpace}))

(***************************************************************************)
(* FRONTMATTER_AND_BODY_REGEX: "---", white space, "\n", a lazy group 1,   *)
(* "\n---", white space, "\n", and group 2 up to the end of the input.     *)
(* n1 is the \n that ends the opening line, g the last index of group 1,   *)
(* n2 the \n that ends the closing line.  The first \s* is greedy (latest  *)
(* n1 first), group 1 is lazy (least g), the second \s* greedy (latest n2).*)
(***************************************************************************)
AllWhiteSpace(s, i, j) == \A k \in i..j : s[k] \in WhiteSpace

ClosingEnds(s, g) ==
    IF g + 2 <= Len(s) /\ s[g + 1] = "\n" /\ s[g + 2] = "---"
    THEN { n2 \in (g + 3)..Len(s) : s[n2] = "\n" /\ AllWhiteSpace(s, g + 3, n2 - 1) }
    ELSE {}

OpeningEnds(s) ==
    IF Len(s) >= 1 /\ s[1] = "---"
    THEN { n1 \in 2..Len(s) :
             /\ s[n1] = "\n"
             /\ AllWhiteSpace(s, 2, n1 - 1)
             /\ \E g \in n1..Len(s) : ClosingEnds(s, g) # {} }
    ELSE {}

(* extractFrontmatterAndBody *)
extractFrontmatterAndBody(src) ==
    IF OpeningEnds(src) = {} THEN [frontmatter |-> <<>>, body |-> <<>>]
    ELSE LET n1 == SetMax(OpeningEnds(src))
             g  == SetMin({ x \in n1..Len(src) : ClosingEnds(src, x) # {} })
             n2 == SetMax(ClosingEnds(src, g))
         IN  [frontmatter |-> SubSeq(src, n1 + 1, g), body |-> SubSeq(src, n2 + 1, Len(src))]

(***************************************************************************)
(* parse(frontmatter) of the yaml package, for block mappings of plain     *)
(* scalars: one KEY ": " VALUE per line, blank lines skipped; a line of    *)
(* another shape or a repeated key is an error; no line at all gives null, *)
(* which spreads to the empty mapping.  The result keeps the order of the  *)
(* lines: a sequence of <<key, value>>.                                    *)
(***************************************************************************)
(* a line break is "\n" or "\r\n"; a "\r" alone is content of its line *)
StripCR(line) == IF line # <<>> /\ Last(line) = "\r" THEN Front(line) ELSE line

RECURSIVE SplitLines(_, _)
SplitLines(s, cur) ==
    IF s = <<>> THEN <<cur>>
    ELSE IF Head(s) = "\n" THEN <<StripCR(cur)>> \o SplitLines(Tail(s), <<>>)
    ELSE SplitLines(Tail(s), Append(cur, Head(s)))

IsEntryLine(line) ==
    /\ Cardinality({i \in 1..Len(line) : line[i] = ":"}) = 1
    /\ \E c \in 2..(Len(line) - 2) :
          /\ line[c] = ":"
          /\ line[c + 1] = " "
          /\ \A i \in 1..(c - 1) : line[i] \notin WhiteSpace \cup {"---"}

EntryOf(line) ==
    LET c == CHOOSE i \in 1..Len(line) : line[i] = ":"
    IN  <<SubSeq(line, 1, c - 1), Str(SubSeq(line, c + 2, Len(line)))>>

YamlParse(frontmatter) ==
    LET lines   == SelectSeq(SplitLines(frontmatter, <<>>), NonBlank)
        entries == [i \in 1..Len(lines) |-> EntryOf(lines[i])]
    IN  IF /\ \A i \in 1..Len(lines) : IsEntryLine(lines[i])
           /\ \A i, j \in 1..Len(lines) : entries[i][1] = entries[j][1] => i = j
        THEN [ok |-> TRUE, entries |-> entries]
        ELSE [ok |-> FALSE]

(* const raw = { ...parsedMetadata } *)
RawOf(entries) ==
    [k \in {entries[i][1] : i \in 1..Len(entries)} |->
        LET i == CHOOSE j \in 1..Len(entries) : entries[j][1] = k IN entries[i][2]]

(* String.prototype.lastIndexOf('.') as a lexeme index, 0 for -1 *)
LastIndexOfDot(key) ==
    IF IsDotted(key) THEN SetMax({i \in 1..Len(key) : key[i] = "."}) ELSE 0

(* obj[ns] = obj[ns] || {}; obj[ns][field] = value, on the mapping obj *)
SetNested(obj, ns, field, value) ==
    LET old == IF ns \in DOMAIN obj THEN obj[ns].val ELSE <<>>
        new == [f \in DOMAIN old \cup {field} |-> IF f = field THEN value ELSE old[f]]
    IN  [n \in DOMAIN obj \cup {ns} |-> IF n = ns THEN Obj(new) ELSE obj[n]]

convertNamespacedEntryAtFirstDot(key, value, obj) ==
    LET firstDotIndex == SetMin({i \in 1..Len(key) : key[i] = "."})
    IN  SetNested(obj, SubSeq(key, 1, firstDotIndex - 1),
                  SubSeq(key, firstDotIndex + 1, Len(key)), value)

(* convertNamespacedEntryToNestedObject *)
convertNamespacedEntryToNestedObject(key, value, obj) ==
    LET lastDotIndex == LastIndexOfDot(key)
    IN  SetNested(obj, SubSeq(key, 1, lastDotIndex - 1),
                  SubSeq(key, lastDotIndex + 1, Len(key)), value)

(* the `for (const k in raw)` loop, for ext *)
RECURSIVE ExtOf(_, _)
ExtOf(entries, ext) ==
    IF entries = <<>> THEN ext
    ELSE LET key == Head(entries)[1]
         IN  ExtOf(Tail(entries),
                   IF ~IsReserved(key) /\ IsDotted(key)
                   THEN convertNamespacedEntryToNestedObject(key, Head(entries)[2], ext)
                   ELSE ext)

(* the same loop, for pruned: BASE_METADATA overlaid with the reserved keys *)
PrunedOf(raw) ==
    LET copied == { k[1] : k \in { x \in DOMAIN raw : IsReserved(x) } }
    IN  [f \in DOMAIN BASE_METADATA \cup copied |->
            IF f \in copied THEN raw[<<f>>] ELSE BASE_METADATA[f]]

(* the catch branch of parseDocument *)
YamlErrorFallbackUntrimmed(src) ==
    [f \in DOMAIN BASE_METADATA \cup {"template"} |->
        IF f = "template" THEN Str(src) ELSE BASE_METADATA[f]]

YamlErrorFallback(src) ==
    [f \in DOMAIN BASE_METADATA \cup {"template"} |->
        IF f = "template" THEN Str(Trim(src)) ELSE BASE_METADATA[f]]

(* parseDocument *)
parseDocument(src) ==
    LET fb == extractFrontmatterAndBody(src)
    IN  IF fb.frontmatter # <<>>
        THEN LET y == YamlParse(fb.frontmatter)
             IN  IF y.ok
                 THEN LET raw    == RawOf(y.entries)
                          pruned == PrunedOf(raw)
                          ext    == ExtOf(y.entries, <<>>)
                      IN  [f \in DOMAIN pruned \cup {"raw", "ext", "template"} |->
                              CASE f = "raw"      -> Obj(raw)
                                [] f = "ext"      -> Obj(ext)
                                [] f = "template" -> Str(Trim(fb.body))
                                [] OTHER          -> pruned[f]]
                 ELSE YamlErrorFallback(src)
        ELSE [f \in DOMAIN BASE_METADATA \cup {"template"} |->
                 IF f = "template" THEN Str(src) ELSE BASE_METADATA[f]]

(***************************************************************************)
(* Documents written in the model.                                         *)
(***************************************************************************)
FrontmatterKeys ==
    { <<k>> : k \in { "config", "description", "ext", "input", "model", "name",
                      "output", "raw", "toolDefs", "tools", "variant", "version",
                      "metadata", "foo" } }
    \cup { <<"a", ".", "b">>, <<"a", ".", "c">>, <<"a", ".", "b", ".", "c">>,
           <<"name", ".", "b">> }

ValueOf(key) == <<"value-">> \o key

EntryLine(key) == key \o <<":", " ">> \o ValueOf(key)

BodyLexemes == {"T", " "}

EntryCount(src) == Cardinality({i \in 1..Len(src) : src[i] = ":"})

BodyLength(src) ==
    IF \E i \in 1..Len(src) : src[i] = "\n"
    THEN Len(src) - SetMax({i \in 1..Len(src) : src[i] = "\n"})
    ELSE Len(src)

OpenFrontmatter ==
    /\ docPc = "write"
    /\ docPhase = "start"
    /\ source' = <<"---", "\n">>
    /\ docPhase' = "front"
    /\ UNCHANGED <<parsed, parsedEol, docPc>>

AddEntry ==
    /\ docPc = "write"
    /\ docPhase = "front"
    /\ EntryCount(source) < MaxEntries
    /\ \E k \in FrontmatterKeys : source' = source \o EntryLine(k) \o <<"\n">>
    /\ UNCHANGED <<docPhase, parsed, parsedEol, docPc>>

(* the same document saved with another line ending *)
LineEnding == [CRLF |-> <<"\r", "\n">>, CR |-> <<"\r">>]

WithLineEndings(src, eol) ==
    Flatten([i \in 1..Len(src) |-> IF src[i] = "\n" THEN eol ELSE <<src[i]>>])

(* the line `invalid: : yaml` of the tests of invalid frontmatter *)
InvalidLine == <<"invalid", ":", " ", ":", " ", "yaml">>

AddInvalidLine ==
    /\ docPc = "write"
    /\ docPhase = "front"
    /\ EntryCount(source) + 2 <= MaxEntries
    /\ source' = source \o InvalidLine \o <<"\n">>
    /\ UNCHANGED <<docPhase, parsed, parsedEol, docPc>>

AddBlankLine ==
    /\ docPc = "write"
    /\ docPhase = "front"
    /\ \E ws \in {<<>>, <<" ">>} : source' = source \o ws \o <<"\n">>
    /\ docPhase' = "blank"
    /\ UNCHANGED <<parsed, parsedEol, docPc>>

CloseFrontmatter ==
    /\ docPc = "write"
    /\ docPhase \in {"front", "blank"}
    /\ \E ws \in {<<>>, <<" ">>} : source' = source \o <<"---">> \o ws \o <<"\n">>
    /\ docPhase' = "body"
    /\ UNCHANGED <<parsed, parsedEol, docPc>>

AddBody ==
    /\ docPc = "write"
    /\ docPhase \in {"start", "text", "body"}
    /\ BodyLength(source) < MaxBody
    /\ \E t \in BodyLexemes : source' = Append(source, t)
    /\ docPhase' = IF docPhase = "start" THEN "text" ELSE docPhase
    /\ UNCHANGED <<parsed, parsedEol, docPc>>

ParseDocumentCall ==
    /\ docPc = "write"
    /\ parsed' = parseDocument(source)
    /\ parsedEol' = [e \in DOMAIN LineEnding |->
                        parseDocument(WithLineEndings(source, LineEnding[e]))]
    /\ docPc' = "done"
    /\ UNCHANGED <<source, docPhase>>

(***************************************************************************)
(* The marker helpers of the helper set.                                   *)
(***************************************************************************)
role(r) == <<"<<<", "dotprompt:", "role:">> \o r \o <<">>>">>

history == <<"<<<", "dotprompt:", "history", ">>>">>

section(name) == <<"<<<", "dotprompt:", "section", " ">> \o name \o <<">>>">>

media(url, contentType) ==
    <<"<<<", "dotprompt:", "media:", "url", " ">> \o url
    \o (IF contentType # <<>> THEN <<" ">> \o contentType ELSE <<>>) \o <<">>>">>

(***************************************************************************)
(* What a template emits in the model.                                     *)
(***************************************************************************)
RoleArgs == { <<"user">>, <<"model">>, <<"A">>, <<>> }

PlainText == { <<"a">>, <<" ">> }

(* literal text that looks like a role or history marker but is not one *)
RoleLikeText ==
    { <<"<<<", "dotprompt:", "ROLE:", "user", ">>>">>,
      <<"<<<", "dotprompt:", "role", ">>>">>,
      <<"<<<", "dotprompt:", "history", "1", ">>>">>,
      <<"dotprompt:", "role:", "user", ">>>">>,
      <<"<<<", "dotprompt:", "role:", "user">> }

(* literal text that looks like a media or section marker *)
MediaLikeText ==
    { <<"<<<", "dotprompt:", "media:", "url", ">>>">>,
      <<"<<<", "dotprompt:", "section", "a", ">>>">>,
      <<"<<<", "dotprompt:", "media:", "a", ">>>">>,
      <<"<<<", "dotprompt:", "MEDIA:", "url", " ", "a", ">>>">>,
      <<"dotprompt:", "section", " ", "a", ">>>">>,
      <<"<<<", "dotprompt:", "media:", "url", " ", "a">> }

MediaArgs == { <<<<"a">>, <<>>>>, <<<<"a">>, <<"b">>>>, <<<<"undefined">>, <<>>>> }

SectionArgs == { <<"a">>, <<"a", " ", "b">> }

(* data?.messages: the i-th message of the caller's history *)
CallerMessage(i) ==
    IF i = 1 THEN MsgMeta("model", "b", [foo |-> "bar"])
    ELSE IF i = 2 THEN [role |-> <<"user">>, content |-> <<>>]
    ELSE Msg("user", "b")

CallerData ==
    {Undefined} \cup { Some([i \in 1..n |-> CallerMessage(i)]) : n \in 0..MaxHistory }

Emission(k, t) == [kind |-> k, text |-> t]

Emit(k, t) ==
    /\ msgPc = "render"
    /\ Len(emitted) < MaxEmit
    /\ rendered' = rendered \o t
    /\ emitted' = Append(emitted, Emission(k, t))
    /\ UNCHANGED <<dataMessages, messages, msgPc>>

EmitRole == \E r \in RoleArgs : Emit("role", role(r))

EmitHistory == Emit("history", history)

EmitMedia == \E a \in MediaArgs : Emit("media", media(a[1], a[2]))

EmitSection == \E n \in SectionArgs : Emit("section", section(n))

EmitText == \E t \in PlainText : Emit("text", t)

EmitRoleLikeText == \E t \in RoleLikeText : Emit("text", t)

EmitMediaLikeText == \E t \in MediaLikeText : Emit("text", t)

(* toMessages(renderedString, data) *)
ToMessagesCall(D) ==
    /\ msgPc = "render"
    /\ \E d \in D :
          /\ dataMessages' = d
          /\ messages' = toMessages(rendered, d)
    /\ msgPc' = "done"
    /\ UNCHANGED <<rendered, emitted>>

ToMessagesWithData == ToMessagesCall(CallerData)

ToMessagesNoData == ToMessagesCall({Undefined})

(***************************************************************************)
(* Picoschema (go/dotprompt/picoschema.go).  A schema handed to Picoschema *)
(* is nil, a string, a number, a list or a mapping; strings and mapping    *)
(* keys are lexeme sequences.  A JSON schema is a function from its field  *)
(* names to their values.                                                  *)
(***************************************************************************)
GoNil == [kind |-> "nil"]
GoString(s) == [kind |-> "string", val |-> s]
GoNumber == [kind |-> "number"]
GoList(l) == [kind |-> "list", val |-> l]
GoMap(f) == [kind |-> "map", val |-> f]

(* the outcome of a Go call: (schema, nil), (nil, nil), (nil, err), or a panic *)
Ok(schema) == [kind |-> "ok", schema |-> schema]
NilNil == [kind |-> "nilnil"]
Err == [kind |-> "error"]
Panic == [kind |-> "panic"]

(* the value of a `type` field: one name, or a list of names ("nil" for a   *)
(* nil element)                                                             *)
TypeName(t) == [kind |-> "name", val |-> t]
TypeList(l) == [kind |-> "list", val |-> l]

(* additionalProperties: false, or a schema *)
NoAdditional == [kind |-> "false"]
Additional(schema) == [kind |-> "schema", val |-> schema]

Put(f, k, v) == [x \in DOMAIN f \cup {k} |-> IF x = k THEN v ELSE f[x]]

JSONSchemaScalarTypes == {"string", "boolean", "null", "number", "integer", "any"}

WildcardPropertyName == <<"(*)">>

IsScalarType(t) == Len(t) = 1 /\ t[1] \in JSONSchemaScalarTypes

(* strings.TrimSpace *)
TrimSpace(s) == Trim(s)

(* extractDescription *)
extractDescription(input) ==
    IF ~\E i \in 1..Len(input) : input[i] = ","
    THEN <<input, <<>>>>
    ELSE LET c == SetMin({i \in 1..Len(input) : input[i] = ","})
         IN  <<TrimSpace(SubSeq(input, 1, c - 1)), TrimSpace(SubSeq(input, c + 1, Len(input)))>>

(* containsInterface(slice, nil) *)
containsInterface(slice, item) == \E i \in 1..Len(slice) : slice[i] = item

(* the resolvers an engine is configured with: none, or one that knows     *)
(* MySchema (an object) and Choice (an enum without type), fails for       *)
(* Broken and returns nil for every other name                             *)
MySchema ==
    ("type" :> TypeName("object")) @@
    ("properties" :> (<<"name">> :> ("type" :> TypeName("string"))))

ChoiceSchema == ("enum" :> <<GoString(<<"x">>)>>)

StoredSchemas == (<<"MySchema">> :> MySchema) @@ (<<"Choice">> :> ChoiceSchema)

\* The resolver returns the map it holds, not a copy of it.
SchemaResolver(schemaName) ==
    CASE schemaName \in DOMAIN picoStore -> Ok(picoStore[schemaName])
      [] schemaName = <<"Broken">>       -> Err
      [] OTHER                           -> NilNil

(* mustResolveSchema *)
mustResolveSchema(hasResolver, schemaName) ==
    IF ~hasResolver THEN Err
    ELSE LET r == SchemaResolver(schemaName)
         IN  IF r.kind = "ok" THEN r ELSE Err

(* a string handed to parsePico *)
ParsePicoString(hasResolver, objStr) ==
    LET typeDesc == extractDescription(objStr)
    IN  IF ~IsScalarType(typeDesc[1])
        THEN LET r == mustResolveSchema(hasResolver, typeDesc[1])
             IN  IF r.kind # "ok" THEN r
                 ELSE IF typeDesc[2] # <<>>
                      THEN Ok(Put(r.schema, "description", typeDesc[2]))
                      ELSE r
        ELSE IF typeDesc[1] = <<"any">>
             THEN IF typeDesc[2] # <<>>
                  THEN Ok("description" :> typeDesc[2])
                  ELSE Ok(<<>>)
             ELSE IF typeDesc[2] # <<>>
                  THEN Ok(("type" :> TypeName(typeDesc[1][1])) @@ ("description" :> typeDesc[2]))
                  ELSE Ok("type" :> TypeName(typeDesc[1][1]))

(* strings.SplitN(key, "(", 2) *)
KeyName(key) ==
    IF \E i \in 1..Len(key) : key[i] = "("
    THEN SubSeq(key, 1, SetMin({i \in 1..Len(key) : key[i] = "("}) - 1)
    ELSE key

KeyHasParenthetical(key) == \E i \in 1..Len(key) : key[i] = "("

KeyParenthetical(key) ==
    LET rest == SubSeq(key, SetMin({i \in 1..Len(key) : key[i] = "("}) + 1, Len(key))
    IN  extractDescription(IF rest # <<>> /\ Last(rest) = ")" THEN Front(rest) ELSE rest)

(* strings.HasSuffix(name, "?") and strings.TrimSuffix(name, "?") *)
IsOptionalKey(key) == KeyName(key) # <<>> /\ Last(KeyName(key)) = "?"

PropertyName(key) == IF IsOptionalKey(key) THEN Front(KeyName(key)) ELSE KeyName(key)

(* sort.Strings, on the property names of the model *)
NameOrder == <<"a", "b", "c", "d", "e", "name", "type">>

NameRank(name) == CHOOSE i \in 1..Len(NameOrder) : NameOrder[i] = name[1]

RECURSIVE SortNames(_)
SortNames(names) ==
    IF names = {} THEN <<>>
    ELSE LET first == CHOOSE n \in names : \A m \in names : NameRank(n) <= NameRank(m)
         IN  <<first>> \o SortNames(names \ {first})

(* propCopy["type"] = []any{propType, "null"} *)
NullableType(propType) == TypeList(<<propType, TypeName("null")>>)

(* prop["type"], nil when the schema has no type *)
TypeOf(prop) == IF "type" \in DOMAIN prop THEN prop["type"] ELSE GoNil

(* the plain-key branch of parsePico, given the parsed value *)
PlainProperty(prop, isOptional) ==
    IF isOptional /\ TypeOf(prop).kind = "name"
    THEN Put(prop, "type", NullableType(prop["type"]))
    ELSE prop

(* the `array` and `object` cases, given the parsed value *)
ArrayProperty(items, isOptional) ==
    ("items" :> items) @@
    ("type" :> IF isOptional THEN NullableType(TypeName("array")) ELSE TypeName("array"))

ObjectProperty(prop, isOptional) ==
    IF isOptional THEN Put(prop, "type", NullableType(TypeOf(prop))) ELSE prop

(* the `enum` case: value.([]any) panics unless the value is a list *)
EnumProperty(value, isOptional) ==
    IF value.kind # "list" THEN Panic
    ELSE Ok("enum" :> IF isOptional /\ ~containsInterface(value.val, GoNil)
                      THEN Append(value.val, GoNil)
                      ELSE value.val)

WithDescription(newProp, desc) ==
    IF desc # <<>> THEN Put(newProp, "description", desc) ELSE newProp

(* the `required` list an object schema ends with *)
RequiredOf(keys) ==
    LET req    == { x \in keys : ~IsOptionalKey(x) }
        sorted == SortNames({ PropertyName(k) : k \in req })
    IN  Flatten([i \in DOMAIN sorted |->
                    Repeat(<<sorted[i]>>,
                           Cardinality({ k \in req : PropertyName(k) = sorted[i] }))])

\* A variant that leaves every object closed.
additionalPropertiesClosed(objMap, outcomes) == NoAdditional

\* schema["additionalProperties"]: false, unless the wildcard key is met.
additionalProperties(objMap, outcomes) ==
    IF WildcardPropertyName \in DOMAIN objMap
    THEN Additional(outcomes[WildcardPropertyName].schema)
    ELSE NoAdditional

(***************************************************************************)
(* parsePico.  Go ranges over the mapping in no fixed order and returns at *)
(* the first key that fails, so a mapping in which several keys fail has   *)
(* the outcome of any of them: the operators give the set of outcomes.     *)
(***************************************************************************)
RECURSIVE parsePico(_, _)
RECURSIVE PropertyOutcomes(_, _, _)
PropertyOutcomes(hasResolver, key, value) ==
    IF key = WildcardPropertyName THEN parsePico(hasResolver, value)
    ELSE IF ~KeyHasParenthetical(key)
    THEN { IF r.kind = "ok" THEN Ok(PlainProperty(r.schema, IsOptionalKey(key))) ELSE r :
             r \in parsePico(hasResolver, value) }
    ELSE LET typeDesc == KeyParenthetical(key)
         IN  CASE typeDesc[1] = <<"array">> ->
                    { IF r.kind = "ok"
                      THEN Ok(WithDescription(ArrayProperty(r.schema, IsOptionalKey(key)),
                                              typeDesc[2]))
                      ELSE r : r \in parsePico(hasResolver, value) }
               [] typeDesc[1] = <<"object">> ->
                    { IF r.kind = "ok"
                      THEN Ok(WithDescription(ObjectProperty(r.schema, IsOptionalKey(key)),
                                              typeDesc[2]))
                      ELSE r : r \in parsePico(hasResolver, value) }
               [] typeDesc[1] = <<"enum">> ->
                    LET r == EnumProperty(value, IsOptionalKey(key))
                    IN  { IF r.kind = "ok" THEN Ok(WithDescription(r.schema, typeDesc[2])) ELSE r }
               [] OTHER -> { Err }

parsePico(hasResolver, obj) ==
    IF obj.kind = "string" THEN { ParsePicoString(hasResolver, obj.val) }
    ELSE IF obj.kind # "map" THEN { Err }
    ELSE LET objMap   == obj.val
             outcomes == [k \in DOMAIN objMap |-> PropertyOutcomes(hasResolver, k, objMap[k])]
             failures == UNION { { r \in outcomes[k] : r.kind # "ok" } : k \in DOMAIN objMap }
             named    == DOMAIN objMap \ {WildcardPropertyName}
             names    == { PropertyName(k) : k \in named }
             \* what each key parsed to, and for each property name the key
             \* that was visited last of those that write it
             parsings == { f \in [DOMAIN objMap -> UNION { outcomes[k] : k \in DOMAIN objMap }] :
                             \A k \in DOMAIN objMap : f[k] \in outcomes[k] }
             lastKeys == { w \in [names -> named] : \A n \in names : PropertyName(w[n]) = n }
             required == RequiredOf(named)
             schema(f, w) ==
                 ("type" :> TypeName("object")) @@
                 ("properties" :> [n \in names |-> f[w[n]].schema]) @@
                 ("additionalProperties" :> additionalProperties(objMap, f))
         IN  IF failures # {} THEN failures
             ELSE IF required = <<>>
             THEN { Ok(schema(f, w)) : f \in parsings, w \in lastKeys }
             ELSE { Ok(Put(schema(f, w), "required", required)) :
                      f \in parsings, w \in lastKeys }

(* (schemaMap, nil): the mapping handed in, returned as it is *)
OkAsIs(schemaMap) == [kind |-> "asis", schema |-> schemaMap]

(* PicoschemaParser.Parse *)
Parse(hasResolver, schema) ==
    IF schema.kind = "nil" THEN { NilNil }
    ELSE IF schema.kind = "string"
    THEN LET typeDesc == extractDescription(schema.val)
         IN  IF IsScalarType(typeDesc[1])
             THEN { Ok(WithDescription("type" :> TypeName(typeDesc[1][1]), typeDesc[2])) }
             ELSE LET r == mustResolveSchema(hasResolver, typeDesc[1])
                  IN  IF r.kind # "ok" THEN { r }
                      ELSE { Ok(WithDescription(r.schema, typeDesc[2])) }
    ELSE IF /\ schema.kind = "map"
            /\ <<"type">> \in DOMAIN schema.val
            /\ schema.val[<<"type">>].kind = "string"
            /\ \/ IsScalarType(schema.val[<<"type">>].val)
               \/ schema.val[<<"type">>].val \in {<<"object">>, <<"array">>}
    THEN { OkAsIs(schema) }
    ELSE IF /\ schema.kind = "map"
            /\ <<"properties">> \in DOMAIN schema.val
            /\ schema.val[<<"properties">>].kind = "map"
    THEN { OkAsIs(GoMap(Put(schema.val, <<"type">>, GoString(<<"object">>)))) }
    ELSE parsePico(hasResolver, schema)

(* Picoschema *)
Picoschema(schema, hasResolver) == Parse(hasResolver, schema)

(***************************************************************************)
(* Schemas written in the model: a leaf, wrapped in mappings key by key;   *)
(* the innermost mapping may get further keys.                             *)
(***************************************************************************)
PicoLeaves ==
    { GoString(<<"string">>), GoString(<<"any">>), GoString(<<"string", ",", " ", "desc">>),
      GoString(<<"MySchema">>), GoString(<<"Choice">>), GoString(<<"Missing">>),
      GoString(<<"Broken">>), GoNumber, GoNil,
      GoList(<<GoString(<<"x">>)>>), GoList(<<GoString(<<"x">>), GoNil>>) }

PicoKeys ==
    { <<"a">>, <<"a", "?">>,
      <<"b", "(", "array", ")">>, <<"b", "?", "(", "array", ",", " ", "desc", ")">>,
      <<"c", "(", "object", ")">>, <<"c", "?", "(", "object", ")">>,
      <<"d", "(", "enum", ")">>, <<"d", "?", "(", "enum", ")">>,
      <<"e", "?", "(", "foo", ")">>, <<"type">>, WildcardPropertyName }

SiblingKeys == { <<"a", "?">>, <<"d", "(", "enum", ")">>, <<"e", "?", "(", "foo", ")">> }

SiblingLeaves == { GoString(<<"string">>), GoNumber }

RECURSIVE PicoDepth(_)
PicoDepth(v) ==
    IF v.kind # "map" THEN 0
    ELSE 1 + SetMax({ PicoDepth(v.val[k]) : k \in DOMAIN v.val })

PicoLeaf ==
    /\ picoPc = "start"
    /\ \E l \in PicoLeaves : pico' = l
    /\ picoPc' = "build"
    /\ UNCHANGED <<picoResolver, picoOut, picoStore, picoAfter, picoLater>>

PicoWrap ==
    /\ picoPc = "build"
    /\ PicoDepth(pico) < MaxDepth
    /\ \E k \in PicoKeys : pico' = GoMap(k :> pico)
    /\ UNCHANGED <<picoResolver, picoOut, picoPc, picoStore, picoAfter, picoLater>>

PicoSibling ==
    /\ picoPc = "build"
    /\ PicoDepth(pico) = 1
    /\ Cardinality(DOMAIN pico.val) < MaxProps
    /\ \E k \in SiblingKeys, l \in SiblingLeaves :
          /\ \A x \in DOMAIN pico.val : PropertyName(x) # PropertyName(k)
          /\ pico' = GoMap(Put(pico.val, k, l))
    /\ UNCHANGED <<picoResolver, picoOut, picoPc, picoStore, picoAfter, picoLater>>

TwinKeys == { <<"a">>, <<"a", "?">>, <<"a", "(", "array", ")">> }

TwinLeaves == { GoString(<<"string">>), GoString(<<"boolean">>) }

\* A further key that yields the property name of a key already there.
PicoTwin ==
    /\ picoPc = "build"
    /\ PicoDepth(pico) = 1
    /\ Cardinality(DOMAIN pico.val) < MaxProps
    /\ \E k \in TwinKeys \ DOMAIN pico.val, l \in TwinLeaves :
          /\ \E x \in DOMAIN pico.val : PropertyName(x) = PropertyName(k)
          /\ pico' = GoMap(Put(pico.val, k, l))
    /\ UNCHANGED <<picoResolver, picoOut, picoPc, picoStore, picoAfter, picoLater>>

\* The schemas a call describes: resolvedSchema["description"] = typeDesc[1]
\* is reached for a string that names a schema the resolver finds and that
\* carries a description, under every key whose value parsePico parses.
RECURSIVE Described(_, _)
Described(hasResolver, obj) ==
    IF obj.kind = "string"
    THEN LET typeDesc == extractDescription(obj.val)
         IN  IF /\ ~IsScalarType(typeDesc[1])
                /\ hasResolver
                /\ typeDesc[1] \in DOMAIN picoStore
                /\ typeDesc[2] # <<>>
             THEN { typeDesc }
             ELSE {}
    ELSE IF obj.kind = "map"
    THEN UNION { IF \/ k = WildcardPropertyName
                    \/ ~KeyHasParenthetical(k)
                    \/ KeyParenthetical(k)[1] \in {<<"array">>, <<"object">>}
                 THEN Described(hasResolver, obj.val[k])
                 ELSE {} : k \in DOMAIN obj.val }
    ELSE {}

ReturnedAsIs(hasResolver, schema) ==
    \E r \in Parse(hasResolver, schema) : r.kind = "asis"

\* A variant in which the description is written to a copy.
storeAfterCopying(hasResolver, schema) == picoStore

\* The resolver's schema objects after Picoschema(schema): the description
\* is written into the map the resolver returned.  The mappings written
\* here describe at most one schema, so that neither the order of the keys
\* nor an early return on a failing key changes what is written.
storeAfter(hasResolver, schema) ==
    LET written == IF ReturnedAsIs(hasResolver, schema) THEN {}
                   ELSE Described(hasResolver, schema)
    IN  [n \in DOMAIN picoStore |->
            IF \E w \in written : w[1] = n
            THEN Put(picoStore[n], "description",
                     (CHOOSE w \in written : w[1] = n)[2])
            ELSE picoStore[n]]

\* The caller's value after the call: schemaMap["type"] = "object" is an
\* assignment to the caller's map, which is the map returned.
callerAfter(schema, r) == IF r.kind = "asis" THEN r.schema ELSE schema

PicoschemaCall ==
    /\ picoPc \in {"start", "build"}
    /\ \E hasResolver \in BOOLEAN :
          /\ picoResolver' = hasResolver
          /\ \E r \in Picoschema(pico, hasResolver) :
                /\ picoOut' = r
                /\ picoAfter' = callerAfter(pico, r)
          /\ picoStore' = storeAfter(hasResolver, pico)
    /\ picoPc' = "done"
    /\ UNCHANGED <<pico, picoLater>>

DescribedLeaves ==
    { GoString(<<"MySchema", ",", " ", "desc">>), GoString(<<"Choice", ",", " ", "desc">>) }

JsonSchemaLike ==
    { GoMap(<<"properties">> :> GoMap(<<"a">> :> GoMap(<<"type">> :> GoString(<<"string">>)))),
      GoMap((<<"properties">> :> GoMap(<<"a">> :> GoMap(<<"type">> :> GoString(<<"string">>))))
            @@ (<<"type">> :> GoString(<<"object">>))) }

\* A reference to a named schema with an inline description.
PicoDescribedLeaf ==
    /\ picoPc = "start"
    /\ \E l \in DescribedLeaves : pico' = l
    /\ picoPc' = "build"
    /\ UNCHANGED <<picoResolver, picoOut, picoStore, picoAfter, picoLater>>

\* A mapping that is JSON Schema already, with or without its `type`.
PicoJsonSchema ==
    /\ picoPc = "start"
    /\ \E m \in JsonSchemaLike : pico' = m
    /\ picoPc' = "written"
    /\ UNCHANGED <<picoResolver, picoOut, picoStore, picoAfter, picoLater>>

PicoschemaOfJsonSchema ==
    /\ picoPc = "written"
    /\ \E hasResolver \in BOOLEAN :
          /\ picoResolver' = hasResolver
          /\ \E r \in Picoschema(pico, hasResolver) :
                /\ picoOut' = r
                /\ picoAfter' = callerAfter(pico, r)
          /\ picoStore' = storeAfter(hasResolver, pico)
    /\ picoPc' = "done"
    /\ UNCHANGED <<pico, picoLater>>

\* A later call on the same parser with the bare name of a schema.
PicoschemaLater ==
    /\ picoPc = "done"
    /\ \E name \in DOMAIN picoStore :
          \E r \in Picoschema(GoString(name), TRUE) :
              picoLater' = [name |-> name, out |-> r]
    /\ picoPc' = "later"
    /\ UNCHANGED <<pico, picoResolver, picoOut, picoStore, picoAfter>>

PicoIdle ==
    /\ pico = GoNil
    /\ picoResolver = FALSE
    /\ picoOut = NilNil
    /\ picoPc = "start"
    /\ picoStore = StoredSchemas
    /\ picoAfter = GoNil
    /\ picoLater = [name |-> <<>>, out |-> NilNil]

(***************************************************************************)
(* DotpromptEnvironment: the helpers every engine starts with.  A helper   *)
(* function is known by its identity.                                      *)
(***************************************************************************)
HelperNames == {"json", "role", "shout"}

HelperFunctions == {"builtin", "f", "g"}

\* What the constructor registers from the helpers module.
BuiltinHelpers == [json |-> "builtin", role |-> "builtin"]

NoDefine == [name |-> "", fn |-> "", before |-> <<>>, threw |-> FALSE]

(***************************************************************************)
(* DotpromptEnvironment: partials.  A template is a sequence of lexemes,   *)
(* "T" for literal text and ">name" for the partial statement {{> name}}.  *)
(***************************************************************************)
MaxPartials == 2

PartialNames == {"p", "q", "r"}

PartialStatement == [p |-> ">p", q |-> ">q", r |-> ">r"]

Templates ==
    {<<>>, <<"T">>, <<">p">>, <<">q">>, <<">r">>, <<">q", ">r">>}

\* What a PartialResolver may return for a name: null, "" or a template.
ResolvedContents == {Null, Str(<<>>), Str(<<"T">>), Str(<<">r">>)}

NoPartialResolver == [present |-> FALSE]

PartialResolvers ==
    {NoPartialResolver} \cup
    {[present |-> TRUE, of |-> f] : f \in [PartialNames -> ResolvedContents]}

\* The visitor's PartialStatement hook: the names of the partial statements.
identifyPartials(tmpl) ==
    {n \in PartialNames : \E i \in DOMAIN tmpl : tmpl[i] = PartialStatement[n]}

\* !this.handlebars.partials[name] is false: the name is registered and its
\* source is not the empty string.
HasPartial(reg, name) == name \in DOMAIN reg /\ reg[name] # <<>>

\* if (content): neither null nor the empty string.
Truthy(content) == content # Null /\ content.val # <<>>

RECURSIVE resolveEach(_, _, _)
resolveEach(reg, resolver, names) ==
    IF names = {} THEN reg
    ELSE LET name == CHOOSE n \in names : TRUE
             rest == names \ {name}
             content == resolver.of[name]
         IN  IF HasPartial(reg, name) THEN resolveEach(reg, resolver, rest)
             ELSE IF Truthy(content)
             THEN resolveEach(
                      resolveEach(Put(reg, name, content.val), resolver,
                                  identifyPartials(content.val)),
                      resolver, rest)
             ELSE resolveEach(reg, resolver, rest)

resolvePartials(reg, resolver, tmpl) ==
    IF ~resolver.present THEN reg
    ELSE resolveEach(reg, resolver, identifyPartials(tmpl))

NewEnvironment ==
    /\ envPc = "new"
    /\ \E r \in PartialResolvers : partialResolver' = r
    /\ helpers' = BuiltinHelpers
    /\ knownHelpers' = DOMAIN BuiltinHelpers
    /\ envPc' = "ready"
    /\ UNCHANGED <<partials, template, partialsBefore, toolVars, renderVars, lastDefine>>

definePartial ==
    /\ envPc = "ready"
    /\ Cardinality(DOMAIN partials) < MaxPartials
    /\ \E name \in PartialNames \ DOMAIN partials, src \in Templates :
          partials' = Put(partials, name, src)
    /\ UNCHANGED <<partialResolver, template, partialsBefore, envPc, toolVars, renderVars, helperVars>>

compile ==
    /\ envPc = "ready"
    /\ \E tmpl \in Templates :
          /\ template' = tmpl
          /\ partials' = resolvePartials(partials, partialResolver, tmpl)
    /\ partialsBefore' = partials
    /\ envPc' = "compiled"
    /\ UNCHANGED <<partialResolver, toolVars, renderVars, helperVars>>

(***************************************************************************)
(* DotpromptEnvironment: tools.                                            *)
(***************************************************************************)
MaxTools == 2

ToolNames == {"a", "b"}

\* A ToolDefinition; the description tells where the definition came from.
ToolDefinition(name, description) ==
    [name |-> name, description |-> description]

RegisteredTool(name) == ToolDefinition(name, "registered")

ResolvedTool(name) == ToolDefinition(name, "resolved")

PromptTool == ToolDefinition("t", "prompt")

NoToolResolver == [present |-> FALSE]

\* The order in which a resolver's promises settle, by name: 1 is first.
SettleOrders ==
    {rank \in [ToolNames -> 1..Cardinality(ToolNames)] :
        \A n, m \in ToolNames : n # m => rank[n] # rank[m]}

ToolResolvers ==
    {NoToolResolver} \cup
    {[present |-> TRUE,
      of |-> [n \in ToolNames |-> IF n \in S THEN ResolvedTool(n) ELSE Null],
      rank |-> rank] :
        S \in SUBSET ToolNames, rank \in SettleOrders}

ToolLists == {l \in UNION {[1..k -> ToolNames] : k \in 0..MaxTools} : TRUE}

\* The `tools` and `toolDefs` fields of a PromptMetadata.
ToolBases ==
    {[tools |-> t, toolDefs |-> d] :
        t \in {Undefined} \cup {Some(l) : l \in ToolLists},
        d \in {Undefined, Some(<<>>), Some(<<PromptTool>>)}}

Fulfilled(out) == [kind |-> "fulfilled", value |-> out]

Rejected == [kind |-> "rejected"]

\* A variant that starts from an empty list whatever the prompt holds.
toolDefsOrEmptyDropped(base) == <<>>

\* out.toolDefs || []
toolDefsOrEmpty(base) ==
    IF base.toolDefs = Undefined THEN <<>> ELSE base.toolDefs.list

RECURSIVE AsSettled(_, _, _)
AsSettled(names, rank, r) ==
    IF r > Cardinality(ToolNames) THEN <<>>
    ELSE SelectSeq(names, LAMBDA n : rank[n] = r) \o AsSettled(names, rank, r + 1)

\* The callbacks of out.tools.map run in order up to their first await: the
\* registry's definitions and the names left alone are pushed in the order
\* of the list; a resolved definition is pushed when its promise settles,
\* which is in the resolver's hands.
resolveTools(registry, resolver, base) ==
    IF base.tools = Undefined THEN Fulfilled(base)
    ELSE LET names == base.tools.list
             InRegistry(n) == n \in DOMAIN registry
             found == SelectSeq(names, InRegistry)
             others == SelectSeq(names, LAMBDA n : ~InRegistry(n))
             existing == toolDefsOrEmpty(base)
             fromRegistry == [i \in DOMAIN found |-> registry[found[i]]]
             settled == AsSettled(others, resolver.rank, 1)
             fromResolver == [i \in DOMAIN settled |-> resolver.of[settled[i]]]
         IN  IF ~resolver.present
             THEN Fulfilled([tools |-> Some(others),
                             toolDefs |-> Some(existing \o fromRegistry)])
             ELSE IF \E i \in DOMAIN others : resolver.of[others[i]] = Null
             THEN Rejected
             ELSE Fulfilled([tools |-> Some(<<>>),
                             toolDefs |-> Some(existing \o fromRegistry
                                               \o fromResolver)])

NewEnvironmentWithTools ==
    /\ envPc = "new"
    /\ \E r \in ToolResolvers : toolResolver' = r
    /\ helpers' = BuiltinHelpers
    /\ knownHelpers' = DOMAIN BuiltinHelpers
    /\ envPc' = "ready"
    /\ UNCHANGED <<tools, toolBase, toolOut, partialVars, renderVars, lastDefine>>

defineTool ==
    /\ envPc = "ready"
    /\ \E name \in ToolNames \ DOMAIN tools :
          tools' = Put(tools, name, RegisteredTool(name))
    /\ UNCHANGED <<toolResolver, toolBase, toolOut, envPc, partialVars, renderVars, helperVars>>

ResolveToolsCall ==
    /\ envPc = "ready"
    /\ \E base \in ToolBases :
          /\ toolBase' = base
          /\ toolOut' = resolveTools(tools, toolResolver, base)
    /\ envPc' = "tools"
    /\ UNCHANGED <<tools, toolResolver, partialVars, renderVars, helperVars>>

(***************************************************************************)
(* DotpromptEnvironment: render.  An object is a function from its own     *)
(* property names; a scalar is Str(..) or Undefined; `tools` and           *)
(* `toolDefs` hold Some(list).  The prompts have no output schema, which   *)
(* renderPicoschema returns as they are.                                   *)
(***************************************************************************)
MaxFields == 3

ModelNames == {"m1", "m2"}

ConfigKeys == {"temperature", "topK"}

\* modelConfigs given to the constructor: defaults hold 1 and 2.
ModelConfigOptions ==
    {<<>>,
     ("m1" :> ("temperature" :> 1 @@ "topK" :> 1)
        @@ "m2" :> ("temperature" :> 2))}

DefaultModelOptions == {Undefined} \cup {Str(<<n>>) : n \in ModelNames}

InputWithDefault(v) == ("default" :> ("location" :> v))

InputWithoutDefault == ("schema" :> Str(<<"x">>))

\* What a frontmatter may hold per field: config values are 3.
FrontmatterValues ==
    [model |-> {Str(<<n>>) : n \in ModelNames},
     name |-> {Str(<<"f">>)},
     config |-> {<<>>, ("temperature" :> 3),
                 ("temperature" :> 3 @@ "topK" :> 3)},
     input |-> {InputWithDefault("restaurant"), InputWithoutDefault}]

\* The `options` argument of render: config values are 4.
RenderOptions ==
    {Undefined} \cup
    {Obj([k \in fields |-> choice[k]]) :
        fields \in SUBSET {"model", "name", "config", "input"},
        choice \in
            [model : {Str(<<n>>) : n \in ModelNames},
             name : {Str(<<"o">>), Undefined},
             config : {("temperature" :> 4)},
             input : {InputWithDefault("home")}]}

DataArguments == {<<>>, ("input" :> <<>>), ("input" :> ("location" :> "x"))}

RenderTemplates == {<<"T">>, <<"{{location}}">>, <<">p", "{{location}}">>}

Has(obj, k) == k \in DOMAIN obj

\* obj[k] is neither missing nor undefined.
Defined(obj, k) == Has(obj, k) /\ obj[k] # Undefined

Get(obj, k) == IF Has(obj, k) THEN obj[k] ELSE Undefined

\* { ...a, ...b }
Spread(a, b) ==
    [k \in DOMAIN a \cup DOMAIN b |-> IF k \in DOMAIN b THEN b[k] ELSE a[k]]

Delete(obj, k) == [x \in DOMAIN obj \ {k} |-> obj[x]]

\* A field is known by its name to hold a number or a mapping: temperature
\* and topK hold numbers, config and safety hold mappings.
NumberFields == ConfigKeys

MappingFields == {"config", "safety"}

\* A variant that returns the object as it is.
keepUndefinedFields(obj) == obj

\* util.ts: the fields whose value is undefined are left out, at every
\* depth; a mapping that is or becomes empty stays.
RECURSIVE removeUndefinedFields(_)
removeUndefinedFields(obj) ==
    [k \in {x \in DOMAIN obj : x \in NumberFields \/ obj[x] # Undefined} |->
        IF k \in MappingFields THEN removeUndefinedFields(obj[k]) ELSE obj[k]]

\* options?.x reads from nothing when options is undefined.
Optional(options) == IF options = Undefined THEN <<>> ELSE options.val

\* options?.model || parsedMetadata.model || this.defaultModel
selectedModel(options, metadata, default) ==
    IF Defined(Optional(options), "model") THEN options.val["model"]
    ELSE IF Defined(metadata, "model") THEN metadata["model"]
    ELSE default

\* modelConfig ? { config: modelConfig } : {}
modelConfigBase(configs, selected) ==
    IF selected # Undefined /\ selected.val[1] \in DOMAIN configs
    THEN ("config" :> configs[selected.val[1]])
    ELSE <<>>

\* A variant in which a layer's config replaces the config merged so far.
mergeLayerShallow(out, merge) == Spread(out, merge)

\* One pass of the loop of renderMetadata.
mergeLayer(out, merge) ==
    LET config == IF Defined(out, "config") THEN out["config"] ELSE <<>>
        layer == IF Defined(merge, "config") THEN merge["config"] ELSE <<>>
    IN  Put(Spread(out, merge), "config", Spread(config, layer))

RECURSIVE mergeLayers(_, _)
mergeLayers(out, merges) ==
    IF merges = <<>> THEN out
    ELSE IF Head(merges) = Undefined THEN mergeLayers(out, Tail(merges))
    ELSE mergeLayers(mergeLayer(out, Head(merges).val), Tail(merges))

WithTools(out, resolved) ==
    LET withTools == IF resolved.tools = Undefined THEN out
                     ELSE Put(out, "tools", resolved.tools)
    IN  IF resolved.toolDefs = Undefined THEN withTools
        ELSE Put(withTools, "toolDefs", resolved.toolDefs)

renderMetadata(registry, resolver, base, merges) ==
    LET out == removeUndefinedFields(Delete(mergeLayers(base, merges), "input"))
        given == [tools |-> Get(out, "tools"), toolDefs |-> Get(out, "toolDefs")]
        resolved == resolveTools(registry, resolver, given)
    IN  IF resolved = Rejected THEN Rejected
        ELSE Fulfilled(WithTools(out, resolved.value))

Text(t) == [kind |-> "text", text |-> t]

\* { ...(options?.input?.default || {}), ...data.input }
renderContext(metadata, options, data) ==
    Spread(IF Defined(Optional(options), "input")
              /\ Defined(options.val["input"], "default")
           THEN options.val["input"]["default"] ELSE <<>>,
           IF Defined(data, "input") THEN data["input"] ELSE <<>>)

\* The compiled template run on a context: a missing variable renders as
\* nothing, a missing partial and an endless nesting of partials throw.
RECURSIVE renderString(_, _, _, _)
renderString(tmpl, context, reg, fuel) ==
    IF tmpl = <<>> THEN Text(<<>>)
    ELSE LET lex == Head(tmpl)
             rest == renderString(Tail(tmpl), context, reg, fuel)
             first ==
                 IF lex = "{{location}}"
                 THEN Text(IF Has(context, "location")
                           THEN <<context["location"]>> ELSE <<>>)
                 ELSE IF \E n \in PartialNames : lex = PartialStatement[n]
                 THEN LET n == CHOOSE m \in PartialNames :
                                   lex = PartialStatement[m]
                      IN  IF fuel = 0 \/ ~Has(reg, n) THEN Rejected
                          ELSE renderString(reg[n], context, reg, fuel - 1)
                 ELSE Text(<<lex>>)
         IN  IF first = Rejected \/ rest = Rejected THEN Rejected
             ELSE Text(first.text \o rest.text)

\* compile(source) followed by the compiled function on data and options:
\* the outcome, with the partials the engine is left with.
render(engine, metadata, tmpl, data, options) ==
    LET reg == resolvePartials(engine.partials, engine.partialResolver, tmpl)
        selected == selectedModel(options, metadata, engine.defaultModel)
        base == modelConfigBase(engine.modelConfigs, selected)
        merged == renderMetadata(engine.tools, engine.toolResolver, base,
                                 <<Obj(metadata), options>>)
        renderedString ==
            renderString(tmpl, renderContext(metadata, options, data), reg,
                         Cardinality(PartialNames))
    IN  [partials |-> reg,
         out |-> IF merged = Rejected \/ renderedString = Rejected THEN Rejected
                 ELSE Fulfilled(Put(merged.value, "messages",
                                    toMessages(renderedString.text, Undefined)))]

Engine ==
    [partials |-> partials, partialResolver |-> partialResolver,
     tools |-> tools, toolResolver |-> toolResolver,
     defaultModel |-> defaultModel, modelConfigs |-> modelConfigs]

NewEnvironmentWithModels ==
    /\ envPc = "new"
    /\ \E d \in DefaultModelOptions : defaultModel' = d
    /\ \E c \in ModelConfigOptions : modelConfigs' = c
    /\ helpers' = BuiltinHelpers
    /\ knownHelpers' = DOMAIN BuiltinHelpers
    /\ envPc' = "ready"
    /\ UNCHANGED <<parsedMetadata, renderData, renderOptions, renderOut,
                   renderOut2, partialVars, toolVars, lastDefine>>

WriteFrontmatter ==
    /\ envPc = "ready"
    /\ Cardinality(DOMAIN parsedMetadata) < MaxFields
    /\ \E field \in DOMAIN FrontmatterValues \ DOMAIN parsedMetadata :
          \E v \in FrontmatterValues[field] :
              parsedMetadata' = Put(parsedMetadata, field, v)
    /\ UNCHANGED <<defaultModel, modelConfigs, renderData, renderOptions,
                   renderOut, renderOut2, partialVars, toolVars, envPc, helperVars>>

RenderCall ==
    /\ envPc = "ready"
    /\ \E tmpl \in RenderTemplates, data \in DataArguments,
          options \in RenderOptions :
          /\ template' = tmpl
          /\ renderData' = data
          /\ renderOptions' = options
          /\ LET r == render(Engine, parsedMetadata, tmpl, data, options)
             IN  /\ renderOut' = r.out
                 /\ partials' = r.partials
    /\ partialsBefore' = partials
    /\ envPc' = "rendered"
    /\ UNCHANGED <<defaultModel, modelConfigs, parsedMetadata, renderOut2,
                   partialResolver, toolVars, helperVars>>

\* Layers with undefined values and empty mappings, also below the top.
LayerConfigs ==
    {<<>>, ("temperature" :> 3), ("stop" :> Undefined), ("stop" :> Str(<<"x">>)),
     ("safety" :> <<>>), ("safety" :> ("level" :> Undefined)),
     ("temperature" :> 3 @@ "safety" :> ("level" :> Str(<<"x">>)))}

MetadataLayers ==
    {[k \in fields |-> choice[k]] :
        fields \in SUBSET {"model", "name", "config"},
        choice \in
            [model : {Str(<<"m1">>)},
             name : {Str(<<"f">>), Undefined},
             config : LayerConfigs]}

\* The returned function up to `mergedMetadata`.
RenderMetadataCall ==
    /\ envPc = "ready"
    /\ \E metadata \in MetadataLayers,
          options \in {Undefined} \cup {Obj(l) : l \in MetadataLayers} :
          /\ parsedMetadata' = metadata
          /\ renderOptions' = options
          /\ renderOut' =
                renderMetadata(tools, toolResolver,
                    modelConfigBase(modelConfigs,
                                    selectedModel(options, metadata, defaultModel)),
                    <<Obj(metadata), options>>)
    /\ envPc' = "metadata"
    /\ UNCHANGED <<defaultModel, modelConfigs, renderData, renderOut2,
                   partialVars, toolVars, helperVars>>

\* Engines for rendering twice: options.partials, options.tools, resolvers
\* for both, model defaults.
ChainResolver ==
    [present |-> TRUE,
     of |-> [p |-> Str(<<">r">>), q |-> Null, r |-> Str(<<"T">>)]]

PartialsOptions == {<<>>, ("p" :> <<">r">>), ("p" :> <<>>)}

ToolsOptions == {<<>>, ("a" :> RegisteredTool("a"))}

ResolvingAll ==
    {r \in ToolResolvers : r.present /\ \A n \in ToolNames : r.of[n] # Null}

NewEnvironmentWithOptions ==
    /\ envPc = "new"
    /\ \E r \in {NoPartialResolver, ChainResolver} : partialResolver' = r
    /\ \E ps \in PartialsOptions : partials' = ps
    /\ \E r \in {NoToolResolver} \cup ResolvingAll : toolResolver' = r
    /\ \E ts \in ToolsOptions : tools' = ts
    /\ defaultModel' = Str(<<"m1">>)
    /\ \E c \in ModelConfigOptions : c # <<>> /\ modelConfigs' = c
    /\ helpers' = BuiltinHelpers
    /\ knownHelpers' = DOMAIN BuiltinHelpers
    /\ envPc' = "ready"
    /\ UNCHANGED <<template, partialsBefore, toolBase, toolOut, parsedMetadata,
                   renderData, renderOptions, renderOut, renderOut2, lastDefine>>

WriteTools ==
    /\ envPc = "ready"
    /\ ~Has(parsedMetadata, "tools")
    /\ \E l \in ToolLists, withDefs \in BOOLEAN :
          parsedMetadata' =
              IF withDefs
              THEN Put(Put(parsedMetadata, "tools", Some(l)),
                       "toolDefs", Some(<<PromptTool>>))
              ELSE Put(parsedMetadata, "tools", Some(l))
    /\ UNCHANGED <<defaultModel, modelConfigs, renderData, renderOptions,
                   renderOut, renderOut2, partialVars, toolVars, envPc, helperVars>>

\* A variant in which the second call finds in the prompt the toolDefs list
\* that the first call returned.
RenderAgainOnReturnedToolDefs ==
    /\ envPc = "rendered"
    /\ LET prompt == IF renderOut.kind = "fulfilled"
                        /\ Has(renderOut.value, "toolDefs")
                     THEN Put(parsedMetadata, "toolDefs",
                              renderOut.value["toolDefs"])
                     ELSE parsedMetadata
           r == render(Engine, prompt, template, renderData, renderOptions)
       IN  /\ renderOut2' = r.out
           /\ partials' = r.partials
    /\ envPc' = "again"
    /\ UNCHANGED <<defaultModel, modelConfigs, parsedMetadata, renderData,
                   renderOptions, renderOut, template, partialsBefore,
                   partialResolver, toolVars, helperVars>>

\* render with the arguments of the call before, on the engine as that call
\* left it.
RenderAgain ==
    /\ envPc = "rendered"
    /\ LET r == render(Engine, parsedMetadata, template, renderData,
                       renderOptions)
       IN  /\ renderOut2' = r.out
           /\ partials' = r.partials
    /\ envPc' = "again"
    /\ UNCHANGED <<defaultModel, modelConfigs, parsedMetadata, renderData,
                   renderOptions, renderOut, template, partialsBefore,
                   partialResolver, toolVars, helperVars>>

(***************************************************************************)
(* DotpromptEnvironment: defining helpers.                                 *)
(***************************************************************************)
NewEnvironmentWithHelpers ==
    /\ envPc = "new"
    /\ \E given \in SUBSET {"json", "shout"} :
          /\ helpers' = [n \in DOMAIN BuiltinHelpers \cup given |->
                            IF n \in given THEN "f" ELSE BuiltinHelpers[n]]
          /\ knownHelpers' = DOMAIN BuiltinHelpers \cup given
    /\ envPc' = "ready"
    /\ UNCHANGED <<lastDefine, partialVars, toolVars, renderVars>>

defineHelper ==
    /\ envPc = "ready"
    /\ \E name \in HelperNames, fn \in HelperFunctions :
          /\ helpers' = Put(helpers, name, fn)
          /\ knownHelpers' = knownHelpers \cup {name}
          /\ lastDefine' = [name |-> name, fn |-> fn, before |-> helpers,
                            threw |-> FALSE]
    /\ UNCHANGED <<partialVars, toolVars, renderVars, envPc>>

EnvIdle ==
    /\ partials = <<>>
    /\ partialResolver = NoPartialResolver
    /\ template = <<>>
    /\ partialsBefore = <<>>
    /\ tools = <<>>
    /\ toolResolver = NoToolResolver
    /\ toolBase = [tools |-> Undefined, toolDefs |-> Undefined]
    /\ toolOut = Rejected
    /\ defaultModel = Undefined
    /\ modelConfigs = <<>>
    /\ parsedMetadata = <<>>
    /\ renderData = <<>>
    /\ renderOptions = Undefined
    /\ renderOut = Rejected
    /\ renderOut2 = Rejected
    /\ helpers = <<>>
    /\ knownHelpers = {}
    /\ lastDefine = NoDefine
    /\ envPc = "new"

(***************************************************************************)
(* compile and the function it returns, one step per turn of the event     *)
(* loop: a step runs the synchronous code up to the next await, and a      *)
(* resolver's promise settles in a step of its own.  envPc is the place    *)
(* the render call has reached: "partials" (awaiting resolvePartials),     *)
(* "compiled", "tools" (awaiting resolveTools), "schema" (awaiting         *)
(* renderPicoschema), "rendered", "messages", or "failed".                 *)
(***************************************************************************)
MaxCalls == 8

CyclicContents ==
    {Null, Str(<<"T">>), Str(<<">p">>), Str(<<">q">>), Str(<<">p", ">r">>)}

CyclicResolvers ==
    {NoPartialResolver} \cup
    {[present |-> TRUE, of |-> f] : f \in [PartialNames -> CyclicContents]}

CyclicTemplates == {<<"T">>, <<">p">>, <<">q", ">r">>, <<">p", ">q">>}

NoneInFlight ==
    [partial |-> [n \in PartialNames |-> 0],
     tool |-> [n \in ToolNames |-> 0],
     schema |-> 0]

NoSchemas == [output |-> Undefined, registered |-> FALSE, resolver |-> Undefined]

RECURSIVE Sum(_, _)
Sum(f, S) ==
    IF S = {} THEN 0
    ELSE LET x == CHOOSE y \in S : TRUE IN f[x] + Sum(f, S \ {x})

Calls(count) ==
    Sum(count.partial, PartialNames) + Sum(count.tool, ToolNames) + count.schema

\* The names of `names` the map callback calls the resolver for.
Unregistered(reg, names) == {n \in names : ~HasPartial(reg, n)}

\* A variant in which a registered name is resolved again.
UnregisteredOrNot(reg, names) == names

ToFetch(reg, names) == Unregistered(reg, names)

Fetch(count, names) ==
    [count EXCEPT !.partial =
        [n \in PartialNames |-> IF n \in names THEN @[n] + 1 ELSE @[n]]]

Settle(count, kind, name) ==
    IF kind = "schema" THEN [count EXCEPT !.schema = @ - 1]
    ELSE [count EXCEPT ![kind][name] = @ - 1]

\* A variant of the awaits that does not wait for anything.
AwaitedNothing(kind) == TRUE

\* await Promise.all(...): every promise of the kind has settled.
Awaited(kind) ==
    IF kind = "schema" THEN inFlight.schema = 0
    ELSE \A n \in DOMAIN inFlight[kind] : inFlight[kind][n] = 0

\* compile, up to the await of resolvePartials.
CompileStart ==
    /\ envPc = "ready"
    /\ \E tmpl \in CyclicTemplates :
          LET names == IF partialResolver.present
                       THEN ToFetch(partials, identifyPartials(tmpl))
                       ELSE {}
          IN  /\ template' = tmpl
              /\ inFlight' = Fetch(inFlight, names)
              /\ invoked' = Fetch(invoked, names)
    /\ partialsBefore' = partials
    /\ envPc' = "partials"
    /\ UNCHANGED <<partials, partialResolver, toolVars, renderVars, helperVars,
                   defined, asyncOut, schemaEnv>>

\* The promise of partialResolver(name) settles and the callback goes on:
\* definePartial, then resolvePartials(content) up to its await.
PartialSettles ==
    \E name \in PartialNames :
        /\ inFlight.partial[name] > 0
        /\ LET content == partialResolver.of[name]
               reg == IF Truthy(content) THEN Put(partials, name, content.val)
                      ELSE partials
               names == IF Truthy(content)
                        THEN ToFetch(reg, identifyPartials(content.val))
                        ELSE {}
           IN  /\ Calls(invoked) + Cardinality(names) <= MaxCalls
               /\ partials' = reg
               /\ defined' = IF Truthy(content)
                             THEN [defined EXCEPT ![name] = @ + 1]
                             ELSE defined
               /\ inFlight' = Fetch(Settle(inFlight, "partial", name), names)
               /\ invoked' = Fetch(invoked, names)
        /\ UNCHANGED <<partialResolver, template, partialsBefore, toolVars,
                       renderVars, helperVars, envPc, asyncOut, schemaEnv>>

\* resolvePartials has returned: this.handlebars.compile(template, ...).
CompileEnd ==
    /\ envPc = "partials"
    /\ Awaited("partial")
    /\ envPc' = "compiled"
    /\ UNCHANGED <<partialVars, toolVars, renderVars, helperVars, asyncVars>>

NewEnvironmentWithPartialResolver ==
    /\ envPc = "new"
    /\ \E r \in CyclicResolvers : partialResolver' = r
    /\ \E reg \in {<<>>, [q |-> <<"T">>], [p |-> <<">r">>]} : partials' = reg
    /\ helpers' = BuiltinHelpers
    /\ knownHelpers' = DOMAIN BuiltinHelpers
    /\ envPc' = "ready"
    /\ UNCHANGED <<template, partialsBefore, toolVars, renderVars, lastDefine,
                   asyncVars>>

(***************************************************************************)
(* The function compile returns, turn by turn: renderMetadata with its two *)
(* awaits (resolveTools, renderPicoschema), renderString and toMessages.   *)
(* The prompt has no options; its frontmatter holds `tools` and may hold   *)
(* an output schema, inline or the name of a schema.                       *)
(***************************************************************************)
StageResolvers ==
    {NoPartialResolver,
     [present |-> TRUE, of |-> [p |-> Str(<<">q">>), q |-> Str(<<">p">>), r |-> Null]],
     [present |-> TRUE, of |-> [p |-> Str(<<"T">>), q |-> Null, r |-> Str(<<"T">>)]]}

StageToolResolvers ==
    {NoToolResolver} \cup
    {[present |-> TRUE,
      of |-> [n \in ToolNames |-> IF n \in S THEN ResolvedTool(n) ELSE Null],
      rank |-> [n \in ToolNames |-> IF n = "a" THEN 1 ELSE 2]] :
        S \in SUBSET ToolNames}

ToolRegistries ==
    {[n \in S |-> RegisteredTool(n)] : S \in SUBSET ToolNames}

\* schemas[name] is set; or a schemaResolver is, which finds the name or
\* answers null; or neither.
SchemaSetups ==
    {[output |-> Undefined, registered |-> TRUE, resolver |-> Undefined],
     [output |-> Undefined, registered |-> FALSE, resolver |-> Str(<<"found">>)],
     [output |-> Undefined, registered |-> FALSE, resolver |-> Null],
     NoSchemas}

OutputSchemas == {Undefined, Str(<<"inline">>), Str(<<"named">>)}

NewEnvironmentWithResolvers ==
    /\ envPc = "new"
    /\ \E r \in StageResolvers : partialResolver' = r
    /\ \E r \in StageToolResolvers : toolResolver' = r
    /\ \E reg \in ToolRegistries : tools' = reg
    /\ \E e \in SchemaSetups : schemaEnv' = e
    /\ helpers' = BuiltinHelpers
    /\ knownHelpers' = DOMAIN BuiltinHelpers
    /\ envPc' = "ready"
    /\ UNCHANGED <<partials, template, partialsBefore, toolBase, toolOut,
                   renderVars, lastDefine, inFlight, invoked, defined, asyncOut>>

\* The frontmatter of the source that is compiled next.
WritePrompt ==
    /\ envPc = "ready"
    /\ toolBase.tools = Undefined
    /\ schemaEnv.output = Undefined
    /\ \E t \in {Undefined} \cup {Some(l) : l \in ToolLists} :
          toolBase' = [tools |-> t, toolDefs |-> Undefined]
    /\ \E o \in OutputSchemas : schemaEnv' = [schemaEnv EXCEPT !.output = o]
    /\ UNCHANGED <<partialVars, tools, toolResolver, toolOut, renderVars,
                   helperVars, envPc, inFlight, invoked, defined, asyncOut>>

\* out.tools.map(async ...) up to the awaits, over the names from position i:
\* a registered definition is pushed at once, a name without a resolver is
\* pushed to outTools, and the resolver is called for the others.
RECURSIVE mapTools(_, _, _)
mapTools(names, i, acc) ==
    IF i > Len(names) THEN acc
    ELSE LET n == names[i]
         IN  IF n \in DOMAIN tools
             THEN mapTools(names, i + 1,
                           [acc EXCEPT !.toolDefs = Append(@, tools[n])])
             ELSE IF toolResolver.present
             THEN mapTools(names, i + 1,
                           [acc EXCEPT !.calls = Append(@, n)])
             ELSE mapTools(names, i + 1,
                           [acc EXCEPT !.tools = Append(@, n)])

CallTools(count, names) ==
    [count EXCEPT !.tool =
        [n \in ToolNames |-> @[n] + Len(SelectSeq(names, LAMBDA m : m = n))]]

\* The returned function up to the await in resolveTools.
RenderStart ==
    /\ envPc = "compiled"
    /\ LET names == IF toolBase.tools = Undefined THEN <<>>
                    ELSE toolBase.tools.list
           acc == mapTools(names, 1,
                           [tools |-> <<>>, toolDefs |-> toolDefsOrEmpty(toolBase),
                            calls |-> <<>>])
       IN  /\ asyncOut' = [tools |-> acc.tools, toolDefs |-> acc.toolDefs]
           /\ inFlight' = CallTools(inFlight, acc.calls)
           /\ invoked' = CallTools(invoked, acc.calls)
    /\ envPc' = "tools"
    /\ UNCHANGED <<partialVars, toolVars, renderVars, helperVars, defined,
                   schemaEnv>>

\* The promise of toolResolver(toolName) settles: the definition is pushed,
\* or the callback throws and Promise.all rejects.
ToolSettles ==
    \E name \in ToolNames :
        /\ inFlight.tool[name] > 0
        /\ inFlight' = Settle(inFlight, "tool", name)
        /\ IF toolResolver.of[name] = Null
           THEN /\ envPc' = IF envPc = "tools" THEN "failed" ELSE envPc
                /\ UNCHANGED asyncOut
           ELSE /\ asyncOut' = [asyncOut EXCEPT
                                   !.toolDefs = Append(@, toolResolver.of[name])]
                /\ UNCHANGED envPc
        /\ UNCHANGED <<partialVars, toolVars, renderVars, helperVars, invoked,
                       defined, schemaEnv>>

\* picoschema asks its schemaResolver for a schema that is given by name.
NamedSchema(output) == output = Str(<<"named">>)

\* resolveTools has returned; renderPicoschema up to its await.  The
\* wrapped resolver answers from this.schemas, else calls the
\* schemaResolver, else answers null, which picoschema cannot use.
ToolsEnd ==
    /\ envPc = "tools"
    /\ Awaited("tool")
    /\ IF NamedSchema(schemaEnv.output) /\ ~schemaEnv.registered
       THEN IF schemaEnv.resolver = Undefined
            THEN /\ envPc' = "failed"
                 /\ UNCHANGED <<inFlight, invoked>>
            ELSE /\ envPc' = "schema"
                 /\ inFlight' = [inFlight EXCEPT !.schema = @ + 1]
                 /\ invoked' = [invoked EXCEPT !.schema = @ + 1]
       ELSE /\ envPc' = "schema"
            /\ UNCHANGED <<inFlight, invoked>>
    /\ UNCHANGED <<partialVars, toolVars, renderVars, helperVars, defined,
                   asyncOut, schemaEnv>>

\* The promise of this.schemaResolver(name) settles.
SchemaSettles ==
    /\ inFlight.schema > 0
    /\ inFlight' = Settle(inFlight, "schema", "named")
    /\ envPc' = IF schemaEnv.resolver = Null /\ envPc = "schema" THEN "failed"
                ELSE envPc
    /\ UNCHANGED <<partialVars, toolVars, renderVars, helperVars, invoked,
                   defined, asyncOut, schemaEnv>>

\* renderMetadata has returned: renderString(...).
RenderString ==
    /\ envPc = "schema"
    /\ Awaited("schema")
    /\ envPc' = "rendered"
    /\ UNCHANGED <<partialVars, toolVars, renderVars, helperVars, asyncVars>>

\* toMessages(renderedString, data), and the returned promise is fulfilled.
ToMessages ==
    /\ envPc = "rendered"
    /\ envPc' = "messages"
    /\ UNCHANGED <<partialVars, toolVars, renderVars, helperVars, asyncVars>>

AsyncIdle ==
    /\ inFlight = NoneInFlight
    /\ invoked = NoneInFlight
    /\ defined = [n \in PartialNames |-> 0]
    /\ asyncOut = [tools |-> <<>>, toolDefs |-> <<>>]
    /\ schemaEnv = NoSchemas

(***************************************************************************)
(* The Go engine: NewDotprompt(nil) and the Define and Lookup calls made   *)
(* on it.  A helper function and a schema are known by their identity.     *)
(***************************************************************************)
GoHelperNames == {"upperCase", "lowerCase"}

GoHelperFuncs == {"upperCaseHelperFunc", "otherHelperFunc"}

GoPartialNames == {"testPartial", "otherPartial"}

GoPartialSources == {<<"Partial Content">>, <<"Other Content">>}

GoSchemaNames == {<<>>, <<"Person">>, <<"Test">>}

testSchema == [kind |-> "schema", Type |-> "string"]

newSchema == [kind |-> "schema", Type |-> "object"]

GoSchemas == {GoNil, testSchema, newSchema}

NewDotprompt ==
    [knownHelpers |-> {}, helpers |-> <<>>,
     knownPartials |-> {}, partials |-> <<>>,
     schemas |-> <<>>]

Returned(d, result) == [dp |-> d, result |-> result]

AlreadyRegistered == [kind |-> "error"]

\* A variant that registers again under a known name.
DefineHelperOverwrites(d, name, helper) ==
    Returned([d EXCEPT !.helpers = Put(d.helpers, name, helper),
                       !.knownHelpers = d.knownHelpers \cup {name}],
             GoNil)

DefineHelper(d, name, helper) ==
    IF name \in d.knownHelpers THEN Returned(d, AlreadyRegistered)
    ELSE Returned([d EXCEPT !.helpers = Put(d.helpers, name, helper),
                            !.knownHelpers = d.knownHelpers \cup {name}],
                  GoNil)

DefinePartial(d, name, src) ==
    IF name \in d.knownPartials THEN Returned(d, AlreadyRegistered)
    ELSE Returned([d EXCEPT !.partials = Put(d.partials, name, src),
                            !.knownPartials = d.knownPartials \cup {name}],
                  GoNil)

\* A variant that keeps the schema a name was first given.
DefineSchemaKeepsFirst(d, name, schema) ==
    IF name = <<>> \/ schema = GoNil THEN Returned(d, Panic)
    ELSE IF name \in DOMAIN d.schemas THEN Returned(d, schema)
    ELSE Returned([d EXCEPT !.schemas = Put(d.schemas, name, schema)], schema)

DefineSchema(d, name, schema) ==
    IF name = <<>> \/ schema = GoNil THEN Returned(d, Panic)
    ELSE Returned([d EXCEPT !.schemas = Put(d.schemas, name, schema)], schema)

LookupSchema(d, name) ==
    IF name \in DOMAIN d.schemas
    THEN [schema |-> d.schemas[name], exists |-> TRUE]
    ELSE [schema |-> GoNil, exists |-> FALSE]

Called(op, name, arg, r) ==
    [op |-> op, name |-> name, arg |-> arg, before |-> dp, result |-> r.result]

DefineHelperCall ==
    \E name \in GoHelperNames, helper \in GoHelperFuncs :
        LET r == DefineHelper(dp, name, helper)
        IN  /\ dp' = r.dp
            /\ dpCall' = Called("DefineHelper", <<name>>, Str(<<helper>>), r)
            /\ UNCHANGED dpLog

DefinePartialCall ==
    \E name \in GoPartialNames, src \in GoPartialSources :
        LET r == DefinePartial(dp, name, src)
        IN  /\ dp' = r.dp
            /\ dpCall' = Called("DefinePartial", <<name>>, Str(src), r)
            /\ UNCHANGED dpLog

DefineSchemaCall ==
    \E name \in GoSchemaNames, schema \in GoSchemas :
        LET r == DefineSchema(dp, name, schema)
        IN  /\ dp' = r.dp
            /\ dpCall' = Called("DefineSchema", name, schema, r)
            /\ dpLog' = IF name = <<>> \/ schema = GoNil THEN dpLog
                        ELSE Put(dpLog, name, schema)

LookupSchemaCall ==
    \E name \in GoSchemaNames :
        /\ dpCall' = Called("LookupSchema", name, GoNil,
                            Returned(dp, LookupSchema(dp, name)))
        /\ UNCHANGED <<dp, dpLog>>

DpIdle ==
    /\ dp = NewDotprompt
    /\ dpCall = [op |-> "NewDotprompt", name |-> <<>>, arg |-> GoNil,
                 before |-> NewDotprompt, result |-> GoNil]
    /\ dpLog = <<>>

(***************************************************************************)
(* insertHistory called on its own.                                        *)
(***************************************************************************)
IhInit ==
    /\ ihMessages = <<>>
    /\ ihHistory \in {Undefined, Null, Some(<<>>)}
    /\ ihOut = <<>>
    /\ ihPc = "build"

IhAddMessage ==
    /\ ihPc = "build"
    /\ Len(ihMessages) < MaxMessages
    /\ \E m \in CurrentMessages : ihMessages' = Append(ihMessages, m)
    /\ UNCHANGED <<ihHistory, ihOut, ihPc>>

IhAddHistory ==
    /\ ihPc = "build"
    /\ ihHistory.kind = "list"
    /\ Len(ihHistory.list) < MaxHistory
    /\ \E h \in HistoryMessages : ihHistory' = Some(Append(ihHistory.list, h))
    /\ UNCHANGED <<ihMessages, ihOut, ihPc>>

IhCall ==
    /\ ihPc = "build"
    /\ ihOut' = InsertHistory(ihMessages, ihHistory)
    /\ ihPc' = "done"
    /\ UNCHANGED <<ihMessages, ihHistory>>

MsgIdle ==
    /\ rendered = <<>>
    /\ emitted = <<>>
    /\ dataMessages = Undefined
    /\ messages = <<>>
    /\ msgPc = "render"

DocIdle ==
    /\ source = <<>>
    /\ docPhase = "start"
    /\ parsed = <<>>
    /\ parsedEol = <<>>
    /\ docPc = "write"

IhIdle ==
    /\ ihMessages = <<>>
    /\ ihHistory = Undefined
    /\ ihOut = <<>>
    /\ ihPc = "build"

InitInsertHistory == IhInit /\ MsgIdle /\ DocIdle /\ PicoIdle /\ EnvIdle /\ DpIdle /\ AsyncIdle

NextInsertHistory ==
    \/ IhAddMessage /\ UNCHANGED <<msgVars, docVars, picoVars, envVars, dpVars, asyncVars>>
    \/ IhAddHistory /\ UNCHANGED <<msgVars, docVars, picoVars, envVars, dpVars, asyncVars>>
    \/ IhCall /\ UNCHANGED <<msgVars, docVars, picoVars, envVars, dpVars, asyncVars>>

SpecInsertHistory == InitInsertHistory /\ [][NextInsertHistory]_vars

(***************************************************************************)
(* A template that emits role and history markers and text, then           *)
(* toMessages with the caller's data.                                      *)
(***************************************************************************)
InitMessages == IhIdle /\ MsgIdle /\ DocIdle /\ PicoIdle /\ EnvIdle /\ DpIdle /\ AsyncIdle

NextMessages ==
    \/ EmitRole /\ UNCHANGED <<ihVars, docVars, picoVars, envVars, dpVars, asyncVars>>
    \/ EmitHistory /\ UNCHANGED <<ihVars, docVars, picoVars, envVars, dpVars, asyncVars>>
    \/ EmitText /\ UNCHANGED <<ihVars, docVars, picoVars, envVars, dpVars, asyncVars>>
    \/ EmitRoleLikeText /\ UNCHANGED <<ihVars, docVars, picoVars, envVars, dpVars, asyncVars>>
    \/ ToMessagesWithData /\ UNCHANGED <<ihVars, docVars, picoVars, envVars, dpVars, asyncVars>>

SpecMessages == InitMessages /\ [][NextMessages]_vars

(***************************************************************************)
(* A template that emits media and section markers and text, also text     *)
(* that looks like a marker, then toMessages without caller data.          *)
(***************************************************************************)
NextParts ==
    \/ EmitMedia /\ UNCHANGED <<ihVars, docVars, picoVars, envVars, dpVars, asyncVars>>
    \/ EmitSection /\ UNCHANGED <<ihVars, docVars, picoVars, envVars, dpVars, asyncVars>>
    \/ EmitText /\ UNCHANGED <<ihVars, docVars, picoVars, envVars, dpVars, asyncVars>>
    \/ EmitMediaLikeText /\ UNCHANGED <<ihVars, docVars, picoVars, envVars, dpVars, asyncVars>>
    \/ EmitRoleLikeText /\ UNCHANGED <<ihVars, docVars, picoVars, envVars, dpVars, asyncVars>>
    \/ ToMessagesNoData /\ UNCHANGED <<ihVars, docVars, picoVars, envVars, dpVars, asyncVars>>

SpecParts == InitMessages /\ [][NextParts]_vars

(***************************************************************************)
(* A .prompt document written line by line, then parseDocument.            *)
(***************************************************************************)
NextParse ==
    \/ OpenFrontmatter /\ UNCHANGED <<ihVars, msgVars, picoVars, envVars, dpVars, asyncVars>>
    \/ AddEntry /\ UNCHANGED <<ihVars, msgVars, picoVars, envVars, dpVars, asyncVars>>
    \/ AddInvalidLine /\ UNCHANGED <<ihVars, msgVars, picoVars, envVars, dpVars, asyncVars>>
    \/ AddBlankLine /\ UNCHANGED <<ihVars, msgVars, picoVars, envVars, dpVars, asyncVars>>
    \/ CloseFrontmatter /\ UNCHANGED <<ihVars, msgVars, picoVars, envVars, dpVars, asyncVars>>
    \/ AddBody /\ UNCHANGED <<ihVars, msgVars, picoVars, envVars, dpVars, asyncVars>>
    \/ ParseDocumentCall /\ UNCHANGED <<ihVars, msgVars, picoVars, envVars, dpVars, asyncVars>>

SpecParse == InitMessages /\ [][NextParse]_vars

(***************************************************************************)
(* A Picoschema written key by key, then Picoschema.                       *)
(***************************************************************************)
NextPico ==
    \/ PicoLeaf /\ UNCHANGED <<ihVars, msgVars, docVars, envVars, dpVars, asyncVars>>
    \/ PicoWrap /\ UNCHANGED <<ihVars, msgVars, docVars, envVars, dpVars, asyncVars>>
    \/ PicoSibling /\ UNCHANGED <<ihVars, msgVars, docVars, envVars, dpVars, asyncVars>>
    \/ PicoschemaCall /\ UNCHANGED <<ihVars, msgVars, docVars, envVars, dpVars, asyncVars>>

SpecPico == InitMessages /\ [][NextPico]_vars

(***************************************************************************)
(* Picoschema on mappings in which two keys may yield one property name.   *)
(***************************************************************************)
NextPicoOrder ==
    \/ PicoLeaf /\ UNCHANGED <<ihVars, msgVars, docVars, envVars, dpVars, asyncVars>>
    \/ PicoWrap /\ UNCHANGED <<ihVars, msgVars, docVars, envVars, dpVars, asyncVars>>
    \/ PicoSibling /\ UNCHANGED <<ihVars, msgVars, docVars, envVars, dpVars, asyncVars>>
    \/ PicoTwin /\ UNCHANGED <<ihVars, msgVars, docVars, envVars, dpVars, asyncVars>>
    \/ PicoschemaCall /\ UNCHANGED <<ihVars, msgVars, docVars, envVars, dpVars, asyncVars>>

SpecPicoOrder == InitMessages /\ [][NextPicoOrder]_vars

(***************************************************************************)
(* Picoschema and what it leaves behind: the resolver's schema objects,    *)
(* the caller's mapping, and a later call that names a schema.             *)
(***************************************************************************)
NextPicoFrame ==
    \/ PicoLeaf /\ UNCHANGED <<ihVars, msgVars, docVars, envVars, dpVars, asyncVars>>
    \/ PicoDescribedLeaf /\ UNCHANGED <<ihVars, msgVars, docVars, envVars, dpVars, asyncVars>>
    \/ PicoJsonSchema /\ UNCHANGED <<ihVars, msgVars, docVars, envVars, dpVars, asyncVars>>
    \/ PicoWrap /\ UNCHANGED <<ihVars, msgVars, docVars, envVars, dpVars, asyncVars>>
    \/ PicoschemaCall /\ UNCHANGED <<ihVars, msgVars, docVars, envVars, dpVars, asyncVars>>
    \/ PicoschemaOfJsonSchema /\ UNCHANGED <<ihVars, msgVars, docVars, envVars, dpVars, asyncVars>>
    \/ PicoschemaLater /\ UNCHANGED <<ihVars, msgVars, docVars, envVars, dpVars, asyncVars>>

SpecPicoFrame == InitMessages /\ [][NextPicoFrame]_vars

(***************************************************************************)
(* An engine that is given partials and a resolver, then compiles.         *)
(***************************************************************************)
NextPartials ==
    \/ NewEnvironment /\ UNCHANGED <<ihVars, msgVars, docVars, picoVars, dpVars, asyncVars>>
    \/ definePartial /\ UNCHANGED <<ihVars, msgVars, docVars, picoVars, dpVars, asyncVars>>
    \/ compile /\ UNCHANGED <<ihVars, msgVars, docVars, picoVars, dpVars, asyncVars>>

SpecPartials == InitMessages /\ [][NextPartials]_vars

(***************************************************************************)
(* An engine that is given tools and a resolver, then resolves the tools   *)
(* of a prompt.                                                            *)
(***************************************************************************)
NextTools ==
    \/ NewEnvironmentWithTools /\ UNCHANGED <<ihVars, msgVars, docVars, picoVars, dpVars, asyncVars>>
    \/ defineTool /\ UNCHANGED <<ihVars, msgVars, docVars, picoVars, dpVars, asyncVars>>
    \/ ResolveToolsCall /\ UNCHANGED <<ihVars, msgVars, docVars, picoVars, dpVars, asyncVars>>

SpecTools == InitMessages /\ [][NextTools]_vars

(***************************************************************************)
(* An engine with model defaults that renders a prompt with frontmatter.   *)
(***************************************************************************)
NextRender ==
    \/ NewEnvironmentWithModels /\ UNCHANGED <<ihVars, msgVars, docVars, picoVars, dpVars, asyncVars>>
    \/ WriteFrontmatter /\ UNCHANGED <<ihVars, msgVars, docVars, picoVars, dpVars, asyncVars>>
    \/ RenderCall /\ UNCHANGED <<ihVars, msgVars, docVars, picoVars, dpVars, asyncVars>>

SpecRender == InitMessages /\ [][NextRender]_vars

(***************************************************************************)
(* The merged metadata of layers that hold undefined values and empty      *)
(* mappings.                                                               *)
(***************************************************************************)
NextMetadata ==
    \/ NewEnvironmentWithModels /\ UNCHANGED <<ihVars, msgVars, docVars, picoVars, dpVars, asyncVars>>
    \/ RenderMetadataCall /\ UNCHANGED <<ihVars, msgVars, docVars, picoVars, dpVars, asyncVars>>

SpecMetadata == InitMessages /\ [][NextMetadata]_vars

(***************************************************************************)
(* An engine with partials, tools and resolvers that renders a prompt      *)
(* naming tools, and renders it again.                                     *)
(***************************************************************************)
NextRenderTwice ==
    \/ NewEnvironmentWithOptions /\ UNCHANGED <<ihVars, msgVars, docVars, picoVars, dpVars, asyncVars>>
    \/ WriteTools /\ UNCHANGED <<ihVars, msgVars, docVars, picoVars, dpVars, asyncVars>>
    \/ RenderCall /\ UNCHANGED <<ihVars, msgVars, docVars, picoVars, dpVars, asyncVars>>
    \/ RenderAgain /\ UNCHANGED <<ihVars, msgVars, docVars, picoVars, dpVars, asyncVars>>

SpecRenderTwice == InitMessages /\ [][NextRenderTwice]_vars

(***************************************************************************)
(* An engine on which helpers are defined and defined again.               *)
(***************************************************************************)
NextHelpers ==
    \/ NewEnvironmentWithHelpers /\ UNCHANGED <<ihVars, msgVars, docVars, picoVars, dpVars, asyncVars>>
    \/ defineHelper /\ UNCHANGED <<ihVars, msgVars, docVars, picoVars, dpVars, asyncVars>>

SpecHelpers == InitMessages /\ [][NextHelpers]_vars

(***************************************************************************)
(* compile with a partial resolver, turn by turn; and the same with every  *)
(* pending resolver promise settling in the end.                           *)
(***************************************************************************)
NextResolvePartials ==
    \/ NewEnvironmentWithPartialResolver /\ UNCHANGED <<ihVars, msgVars, docVars, picoVars, dpVars>>
    \/ CompileStart /\ UNCHANGED <<ihVars, msgVars, docVars, picoVars, dpVars>>
    \/ PartialSettles /\ UNCHANGED <<ihVars, msgVars, docVars, picoVars, dpVars>>
    \/ CompileEnd /\ UNCHANGED <<ihVars, msgVars, docVars, picoVars, dpVars>>

SpecResolvePartials == InitMessages /\ [][NextResolvePartials]_vars

SpecResolvePartialsFair ==
    /\ SpecResolvePartials
    /\ WF_vars(PartialSettles /\ UNCHANGED <<ihVars, msgVars, docVars, picoVars, dpVars>>)
    /\ WF_vars(CompileEnd /\ UNCHANGED <<ihVars, msgVars, docVars, picoVars, dpVars>>)

(***************************************************************************)
(* One render, turn by turn, with the three resolvers.                     *)
(***************************************************************************)
NextStages ==
    \/ NewEnvironmentWithResolvers /\ UNCHANGED <<ihVars, msgVars, docVars, picoVars, dpVars>>
    \/ WritePrompt /\ UNCHANGED <<ihVars, msgVars, docVars, picoVars, dpVars>>
    \/ CompileStart /\ UNCHANGED <<ihVars, msgVars, docVars, picoVars, dpVars>>
    \/ PartialSettles /\ UNCHANGED <<ihVars, msgVars, docVars, picoVars, dpVars>>
    \/ CompileEnd /\ UNCHANGED <<ihVars, msgVars, docVars, picoVars, dpVars>>
    \/ RenderStart /\ UNCHANGED <<ihVars, msgVars, docVars, picoVars, dpVars>>
    \/ ToolSettles /\ UNCHANGED <<ihVars, msgVars, docVars, picoVars, dpVars>>
    \/ ToolsEnd /\ UNCHANGED <<ihVars, msgVars, docVars, picoVars, dpVars>>
    \/ SchemaSettles /\ UNCHANGED <<ihVars, msgVars, docVars, picoVars, dpVars>>
    \/ RenderString /\ UNCHANGED <<ihVars, msgVars, docVars, picoVars, dpVars>>
    \/ ToMessages /\ UNCHANGED <<ihVars, msgVars, docVars, picoVars, dpVars>>

SpecStages == InitMessages /\ [][NextStages]_vars

(***************************************************************************)
(* A Go engine on which helpers, partials and schemas are defined.         *)
(***************************************************************************)
NextDotprompt ==
    \/ DefineHelperCall /\ UNCHANGED <<ihVars, msgVars, docVars, picoVars, envVars, asyncVars>>
    \/ DefinePartialCall /\ UNCHANGED <<ihVars, msgVars, docVars, picoVars, envVars, asyncVars>>
    \/ DefineSchemaCall /\ UNCHANGED <<ihVars, msgVars, docVars, picoVars, envVars, asyncVars>>
    \/ LookupSchemaCall /\ UNCHANGED <<ihVars, msgVars, docVars, picoVars, envVars, asyncVars>>

SpecDotprompt == InitMessages /\ [][NextDotprompt]_vars

(***************************************************************************)
(* C1: insertHistory returns `messages` unchanged when history is absent   *)
(* or a message already has metadata.purpose = "history"; otherwise the    *)
(* history goes right before a trailing user message, else at the end; the *)
(* history messages are the caller's, unmodified and in order.             *)
(***************************************************************************)
C1_HistoryAbsent == ihHistory.kind \in {"undefined", "null"}

C1_AlreadyHasHistory == \E i \in 1..Len(ihMessages) : HasPurposeHistory(ihMessages[i])

C1_InsertHistory ==
    ihPc = "done" =>
        IF C1_HistoryAbsent \/ C1_AlreadyHasHistory
        THEN ihOut = ihMessages
        ELSE IF ihMessages # <<>> /\ ihMessages[Len(ihMessages)].role = <<"user">>
             THEN /\ Len(ihOut) = Len(ihMessages) + Len(ihHistory.list)
                  /\ SubSeq(ihOut, 1, Len(ihMessages) - 1) = Front(ihMessages)
                  /\ SubSeq(ihOut, Len(ihMessages), Len(ihOut) - 1) = ihHistory.list
                  /\ ihOut[Len(ihOut)] = ihMessages[Len(ihMessages)]
             ELSE ihOut = ihMessages \o ihHistory.list

C1_Witness ==
    /\ ihPc = "done"
    /\ ihHistory.kind = "list"
    /\ Len(ihHistory.list) = 2
    /\ ihHistory.list[1] # ihHistory.list[2]
    /\ Len(ihMessages) = 2
    /\ ~C1_AlreadyHasHistory
    /\ ihMessages[2].role = <<"user">>
    /\ ihOut = <<ihMessages[1], ihHistory.list[1], ihHistory.list[2], ihMessages[2]>>

(***************************************************************************)
(* Reading the emission log.                                               *)
(***************************************************************************)
CallerList == IF dataMessages.kind = "list" THEN dataMessages.list ELSE <<>>

(* the rendered text of emissions i..j *)
RenderedSlice(i, j) == Flatten([k \in 1..(j - i + 1) |-> emitted[i + k - 1].text])

(* a role helper call whose argument matches [a-z]+ *)
IsRoleMarker(e) ==
    /\ e.kind = "role"
    /\ Len(e.text) > 4
    /\ \A k \in 4..(Len(e.text) - 1) : e.text[k] \in LowerCase

RoleOf(e) == SubSeq(e.text, 4, Len(e.text) - 1)

IsHistoryMarker(e) == e.kind = "history"

IsPlainText(e) == e.kind = "text" /\ e.text \in PlainText

IsBlankText(e) == IsPlainText(e) /\ ~NonBlank(e.text)

(* emissions i..j are plain text, not all of it whitespace *)
PlainTextRun(i, j) ==
    /\ i <= j
    /\ \A k \in i..j : IsPlainText(emitted[k])
    /\ \E k \in i..j : NonBlank(emitted[k].text)

(* position z ends the stream or holds a marker *)
StreamEndOrMarker(z) ==
    \/ z = Len(emitted) + 1
    \/ (z <= Len(emitted) /\ (IsRoleMarker(emitted[z]) \/ IsHistoryMarker(emitted[z])))

(***************************************************************************)
(* C2: every history marker of the rendered stream is an insertion point:  *)
(* right after the messages of the stream before it come copies of the     *)
(* caller's messages, in order, with metadata.purpose = "history" added    *)
(* and their other metadata kept (nothing when there are none), and text   *)
(* that follows the marker is a new message with role model.               *)
(***************************************************************************)
C2_AsHistory(m) ==
    IF "metadata" \in DOMAIN m
    THEN [m EXCEPT !.metadata = [k \in DOMAIN m.metadata \cup {"purpose"} |->
                                    IF k = "purpose" THEN "history" ELSE m.metadata[k]]]
    ELSE [role |-> m.role, content |-> m.content, metadata |-> [purpose |-> "history"]]

C2_HistoryMarkerInserts ==
    msgPc = "done" =>
        \A p \in 1..Len(emitted) :
            IsHistoryMarker(emitted[p]) =>
                LET X == RenderedMessages(RenderedSlice(1, p - 1), dataMessages)
                    H == CallerList
                    n == Len(X) + Len(H)
                IN  /\ Len(messages) >= n
                    /\ SubSeq(messages, 1, Len(X)) = X
                    /\ \A i \in 1..Len(H) : messages[Len(X) + i] = C2_AsHistory(H[i])
                    /\ \A z \in (p + 2)..(Len(emitted) + 1) :
                          PlainTextRun(p + 1, z - 1) /\ StreamEndOrMarker(z) =>
                              /\ Len(messages) > n
                              /\ messages[n + 1] =
                                    [role |-> <<"model">>,
                                     content |-> <<TextPart(RenderedSlice(p + 1, z - 1))>>]

C2_Witness ==
    /\ msgPc = "done"
    /\ Len(CallerList) = 2
    /\ Len(emitted) = 3
    /\ IsPlainText(emitted[1]) /\ NonBlank(emitted[1].text)
    /\ IsHistoryMarker(emitted[2])
    /\ IsPlainText(emitted[3]) /\ NonBlank(emitted[3].text)
    /\ Len(messages) = 4
    /\ messages[2].metadata = [foo |-> "bar", purpose |-> "history"]
    /\ messages[3].metadata = [purpose |-> "history"]
    /\ messages[4].role = <<"model">>

C2_WitnessTwoMarkers ==
    /\ msgPc = "done"
    /\ Len(CallerList) = 1
    /\ Len(emitted) = 3
    /\ IsHistoryMarker(emitted[1])
    /\ IsHistoryMarker(emitted[3])
    /\ Len(messages) = 3

(***************************************************************************)
(* C3: a role marker opens a new message only when the current one has     *)
(* text, else it replaces the role: a run of role markers separated by     *)
(* whitespace adds one message, with the role of the last marker and the   *)
(* text that follows; text before any marker is a user message; an empty   *)
(* stream gives no message; no message is empty.                           *)
(***************************************************************************)
C3_NoCallerHistory == CallerList = <<>>

(* p..q is a run of role markers separated only by whitespace *)
C3_RoleRun(p, q) ==
    /\ IsRoleMarker(emitted[p])
    /\ IsRoleMarker(emitted[q])
    /\ \A k \in p..q : IsRoleMarker(emitted[k]) \/ IsBlankText(emitted[k])

C3_RoleMarkers ==
    (msgPc = "done" /\ C3_NoCallerHistory) =>
        /\ rendered = <<>> => messages = <<>>
        /\ \A i \in 1..Len(messages) : messages[i].content # <<>>
        /\ \A z \in 2..(Len(emitted) + 1) :
              PlainTextRun(1, z - 1) /\ StreamEndOrMarker(z) =>
                  /\ messages # <<>>
                  /\ messages[1] = [role |-> <<"user">>,
                                    content |-> <<TextPart(RenderedSlice(1, z - 1))>>]
        /\ \A p \in 1..Len(emitted) : \A q \in p..Len(emitted) :
              \A z \in (q + 2)..(Len(emitted) + 1) :
                  (C3_RoleRun(p, q) /\ PlainTextRun(q + 1, z - 1) /\ StreamEndOrMarker(z)) =>
                      LET X == RenderedMessages(RenderedSlice(1, p - 1), dataMessages)
                      IN  /\ Len(messages) > Len(X)
                          /\ SubSeq(messages, 1, Len(X) + 1) =
                                Append(X, [role |-> RoleOf(emitted[q]),
                                           content |-> <<TextPart(RenderedSlice(q + 1, z - 1))>>])

C3_Witness ==
    /\ msgPc = "done"
    /\ C3_NoCallerHistory
    /\ Len(emitted) = 3
    /\ C3_RoleRun(1, 2)
    /\ RoleOf(emitted[1]) # RoleOf(emitted[2])
    /\ PlainTextRun(3, 3)
    /\ messages = <<[role |-> RoleOf(emitted[2]), content |-> <<TextPart(emitted[3].text)>>]>>

C3_WitnessSplit ==
    /\ msgPc = "done"
    /\ C3_NoCallerHistory
    /\ Len(emitted) = 3
    /\ PlainTextRun(1, 1)
    /\ C3_RoleRun(2, 2)
    /\ PlainTextRun(3, 3)
    /\ Len(messages) = 2
    /\ messages[1].role = <<"user">>
    /\ messages[2].role = <<"model">>

(***************************************************************************)
(* C4: a role or history marker that does not match the grammar is never   *)
(* treated as a marker: it changes no role, inserts no history, and is     *)
(* kept verbatim inside a text part.                                       *)
(***************************************************************************)
Contains(t, sub) ==
    \E k \in 1..(Len(t) - Len(sub) + 1) : SubSeq(t, k, k + Len(sub) - 1) = sub

IsInvalidRoleOrHistory(e) ==
    \/ (e.kind = "role" /\ ~IsRoleMarker(e))
    \/ (e.kind = "text" /\ e.text \in RoleLikeText)

KeptAsText(t) ==
    \E i \in 1..Len(messages) : \E j \in 1..Len(messages[i].content) :
        /\ "text" \in DOMAIN messages[i].content[j]
        /\ Contains(messages[i].content[j].text, t)

C4_InvalidMarkersAreText ==
    msgPc = "done" =>
        /\ \A p \in 1..Len(emitted) :
              IsInvalidRoleOrHistory(emitted[p]) => KeptAsText(emitted[p].text)
        /\ \A i \in 1..Len(messages) :
              \/ messages[i].role \in {<<"user">>, <<"model">>}
              \/ \E p \in 1..Len(emitted) :
                    IsRoleMarker(emitted[p]) /\ messages[i].role = RoleOf(emitted[p])
        /\ (\A p \in 1..Len(emitted) : ~IsHistoryMarker(emitted[p])) =>
              \A i \in 1..Len(messages) : ~HasPurposeHistory(messages[i])

(***************************************************************************)
(* C6: toMessages is order-preserving: without caller history, the parts   *)
(* of the returned messages, re-emitted in order (text as it is, a media   *)
(* or section marker rebuilt from its fields), spell the rendered stream   *)
(* without its role and history markers and without the whitespace-only    *)
(* text between markers.                                                   *)
(***************************************************************************)
ReemitPart(part) ==
    IF "text" \in DOMAIN part THEN part.text
    ELSE IF "media" \in DOMAIN part
    THEN <<"<<<", "dotprompt:", "media:", "url">>
         \o (IF "url" \in DOMAIN part.media THEN <<" ">> \o part.media.url ELSE <<>>)
         \o (IF "contentType" \in DOMAIN part.media
             THEN <<" ">> \o part.media.contentType ELSE <<>>)
         \o <<">>>">>
    ELSE <<"<<<", "dotprompt:", "section">>
         \o (IF "purpose" \in DOMAIN part.metadata THEN <<" ">> \o part.metadata.purpose
             ELSE <<>>)
         \o <<">>>">>

ReemitContent(m) == Flatten([j \in 1..Len(m.content) |-> ReemitPart(m.content[j])])

ReemitAll(msgs) == Flatten([i \in 1..Len(msgs) |-> ReemitContent(msgs[i])])

IsMarkerEmission(e) ==
    IsRoleMarker(e) \/ IsHistoryMarker(e) \/ e.kind \in {"media", "section"}

(* the stream from emission i on, `run` being the text since the last marker *)
RECURSIVE StreamBody(_, _)
StreamBody(i, run) ==
    LET flushed == IF NonBlank(run) THEN run ELSE <<>>
    IN  IF i > Len(emitted) THEN flushed
        ELSE IF IsMarkerEmission(emitted[i])
        THEN flushed
             \o (IF emitted[i].kind \in {"media", "section"} THEN emitted[i].text ELSE <<>>)
             \o StreamBody(i + 1, <<>>)
        ELSE StreamBody(i + 1, run \o emitted[i].text)

C6_OrderPreserving ==
    (msgPc = "done" /\ dataMessages = Undefined) =>
        ReemitAll(messages) = StreamBody(1, <<>>)

(* the same, for streams whose text holds nothing that looks like a marker *)
C6_WithoutMarkerLikeText ==
    (/\ msgPc = "done"
     /\ dataMessages = Undefined
     /\ \A p \in 1..Len(emitted) : IsMarkerEmission(emitted[p]) \/ IsPlainText(emitted[p])
     /\ \A p \in 1..Len(emitted) : emitted[p].kind = "section" => Len(emitted[p].text) = 6) =>
        ReemitAll(messages) = StreamBody(1, <<>>)

(***************************************************************************)
(* C7 as stated: every message returned by toMessages has a non-empty      *)
(* content list.                                                           *)
(***************************************************************************)
C7_EveryContentNonEmpty ==
    msgPc = "done" => \A i \in 1..Len(messages) : messages[i].content # <<>>

(***************************************************************************)
(* C7, amended: every message that toMessages builds from rendered text    *)
(* has a non-empty content list (a message source with no content and an   *)
(* empty source is dropped); a message with an empty content list is a     *)
(* caller history message that came with it, as it is or with the history  *)
(* purpose added.                                                          *)
(***************************************************************************)
C7_EmptyContentOnlyFromCaller ==
    msgPc = "done" =>
        \A i \in 1..Len(messages) :
            messages[i].content = <<>> =>
                \E k \in 1..Len(CallerList) :
                    /\ CallerList[k].content = <<>>
                    /\ messages[i] \in {CallerList[k], C2_AsHistory(CallerList[k])}

C7_Witness ==
    /\ msgPc = "done"
    /\ Len(emitted) = 3
    /\ PlainTextRun(1, 1)
    /\ IsHistoryMarker(emitted[2])
    /\ IsRoleMarker(emitted[3])
    /\ Len(CallerList) = 2
    /\ Len(messages) = 3
    /\ messages[1].content # <<>>
    /\ messages[3].content = <<>>

(***************************************************************************)
(* C5 as stated: a media or section marker-like string that is not         *)
(* exactly `<<<dotprompt:media:url URL [CONTENT_TYPE]>>>` or                *)
(* `<<<dotprompt:section NAME>>>` is preserved verbatim as text and gives  *)
(* no Media part and no Pending part.                                      *)
(***************************************************************************)
IsTextPart(part) == "text" \in DOMAIN part

NonTextParts ==
    { <<i, j>> \in (1..Len(messages)) \X (1..8) :
        j <= Len(messages[i].content) /\ ~IsTextPart(messages[i].content[j]) }

HasMarkerPrefix(t) ==
    StartsWith(t, MEDIA_MARKER_PREFIX) \/ StartsWith(t, SECTION_MARKER_PREFIX)

(* matches MEDIA_AND_SECTION_MARKER_REGEX as a whole *)
IsClosedMarker(t) ==
    /\ \/ StartsWith(t, <<"<<<", "dotprompt:", "media:", "url">>)
       \/ StartsWith(t, SECTION_MARKER_PREFIX)
    /\ Last(t) = ">>>"

(* begins with one of the four marker prefixes and is no marker *)
IsBrokenMarker(e) ==
    \/ HasMarkerPrefix(e.text) /\ ~IsClosedMarker(e.text)
    \/ StartsWith(e.text, ROLE_MARKER_PREFIX) /\ ~IsRoleMarker(e)
    \/ StartsWith(e.text, HISTORY_MARKER_PREFIX) /\ ~IsHistoryMarker(e)

ParsedOk == docPc = "done" /\ "raw" \in DOMAIN parsed

Raw == parsed.raw.val

Ext == parsed.ext.val

ExtEntries == UNION { { <<ns, f>> : f \in DOMAIN Ext[ns].val } : ns \in DOMAIN Ext }

DottedKeys == { k \in DOMAIN Raw : ~IsReserved(k) /\ IsDotted(k) }

LastDot(k) == CHOOSE d \in 1..Len(k) : k[d] = "." /\ \A j \in (d + 1)..Len(k) : k[j] # "."

NamespaceOf(k) == SubSeq(k, 1, LastDot(k) - 1)

FieldOf(k) == SubSeq(k, LastDot(k) + 1, Len(k))

(* the frontmatter lines of the source *)
KeysWritten ==
    { k \in FrontmatterKeys :
        \E i \in 1..Len(source) :
           /\ i + Len(EntryLine(k)) <= Len(source)
           /\ source[i] = "\n"
           /\ source[i + 1] = k[1]
           /\ SubSeq(source, i + 1, i + Len(EntryLine(k))) = EntryLine(k)
           /\ source[i + Len(EntryLine(k)) + 1] = "\n" }

(***************************************************************************)
(* C8: for every key k of raw: an unreserved dotted k gives                *)
(* ext[ns][field] = raw[k] with ns before and field after the LAST dot; an *)
(* unreserved undotted k contributes to nothing; ext holds nothing but the *)
(* dotted unreserved keys (so no key is both a reserved field and in ext), *)
(* and distinct dotted keys take distinct places in ext.                   *)
(***************************************************************************)
C8_NamespacedKeys ==
    ParsedOk =>
        /\ \A k \in DottedKeys :
              /\ NamespaceOf(k) \in DOMAIN Ext
              /\ FieldOf(k) \in DOMAIN Ext[NamespaceOf(k)].val
              /\ Ext[NamespaceOf(k)].val[FieldOf(k)] = Raw[k]
        /\ ExtEntries = { <<NamespaceOf(k), FieldOf(k)>> : k \in DottedKeys }
        /\ Cardinality(ExtEntries) = Cardinality(DottedKeys)
        /\ \A k \in DOMAIN Raw :
              (~IsReserved(k) /\ ~IsDotted(k)) =>
                  \/ k[1] \notin DOMAIN parsed
                  \/ /\ k[1] \in DOMAIN BASE_METADATA
                     /\ parsed[k[1]] = BASE_METADATA[k[1]]

C8_Witness ==
    /\ ParsedOk
    /\ DottedKeys = { <<"a", ".", "b">>, <<"a", ".", "b", ".", "c">> }

C8_WitnessSharedNamespace ==
    /\ ParsedOk
    /\ DottedKeys = { <<"a", ".", "b">>, <<"a", ".", "c">> }

C8_WitnessUndotted ==
    /\ ParsedOk
    /\ DOMAIN Raw = { <<"foo">>, <<"name", ".", "b">> }

(***************************************************************************)
(* C9, as stated: the reserved set is {name, description, variant,         *)
(* version, model, tools, toolDefs, config, input, output, raw, ext,       *)
(* metadata}; each of these keys present in the frontmatter is copied into *)
(* the field of the same name, and no other undotted key is copied.        *)
(***************************************************************************)
C9_StatedKeywords ==
    { "name", "description", "variant", "version", "model", "tools", "toolDefs",
      "config", "input", "output", "raw", "ext", "metadata" }

C9_StatedSetCopied ==
    ParsedOk =>
        /\ \A k \in C9_StatedKeywords :
              <<k>> \in DOMAIN Raw => (k \in DOMAIN parsed /\ parsed[k] = Raw[<<k>>])
        /\ \A k \in DOMAIN Raw :
              (Len(k) = 1 /\ k[1] \notin C9_StatedKeywords) =>
                  ~(k[1] \in DOMAIN parsed /\ parsed[k[1]] = Raw[k])

(***************************************************************************)
(* C9, amended: the reserved set is the twelve keys without metadata.      *)
(* Each of them other than raw and ext, when present in the frontmatter,   *)
(* is copied into the field of the same name; the raw field is always the  *)
(* whole frontmatter mapping and the ext field always the mapping built    *)
(* from the dotted keys, whatever a key named raw or ext holds; no other   *)
(* undotted key, metadata included, is copied.                             *)
(***************************************************************************)
C9_CopiedKeywords ==
    { "name", "description", "variant", "version", "model", "tools", "toolDefs",
      "config", "input", "output" }

C9_ReservedKeywordsCopied ==
    ParsedOk =>
        /\ \A k \in C9_CopiedKeywords :
              <<k>> \in DOMAIN Raw => (k \in DOMAIN parsed /\ parsed[k] = Raw[<<k>>])
        /\ parsed.raw.type = "object"
        /\ DOMAIN Raw = KeysWritten
        /\ \A k \in DOMAIN Raw : Raw[k] = Str(ValueOf(k))
        /\ parsed.ext.type = "object"
        /\ \A ns \in DOMAIN Ext : \E k \in DottedKeys : ns = NamespaceOf(k)
        /\ \A k \in DOMAIN Raw :
              (Len(k) = 1 /\ k[1] \notin C9_CopiedKeywords) =>
                  ~(k[1] \in DOMAIN parsed /\ parsed[k[1]] = Raw[k])

C9_Witness ==
    /\ ParsedOk
    /\ DOMAIN Raw = { <<"metadata">>, <<"raw">> }

C9_WitnessCopied ==
    /\ ParsedOk
    /\ DOMAIN Raw = { <<"variant">>, <<"ext">> }

(***************************************************************************)
(* C10: a document whose frontmatter block is empty (nothing, or only a    *)
(* blank line, between the two delimiter lines) parses to the base         *)
(* metadata, and its template is the body after the closing delimiter,     *)
(* without the delimiter lines.                                            *)
(***************************************************************************)
EmptyFrontmatterBlock == docPhase = "body" /\ EntryCount(source) = 0

DocumentBody == SubSeq(source, Len(source) - BodyLength(source) + 1, Len(source))

C10_EmptyFrontmatter ==
    (docPc = "done" /\ EmptyFrontmatterBlock) =>
        /\ parsed.ext = BASE_METADATA.ext
        /\ parsed.metadata = BASE_METADATA.metadata
        /\ parsed.config = BASE_METADATA.config
        /\ parsed.template.val \in { DocumentBody, Trim(DocumentBody) }

C10_DelimitersInTemplate ==
    /\ docPc = "done"
    /\ EmptyFrontmatterBlock
    /\ Contains(parsed.template.val, <<"---">>)

(***************************************************************************)
(* C11: when the frontmatter block is present but its YAML cannot be       *)
(* parsed (a line that is no mapping entry, or a repeated key), the result *)
(* is the base metadata alone (no reserved field, no raw) and the template *)
(* is the whole source without its leading and trailing white space.       *)
(***************************************************************************)
HasInvalidLine == Contains(source, <<":", " ", ":">>)

EntryStarts(k) ==
    { i \in 1..(Len(source) - Len(EntryLine(k)) - 1) :
        /\ source[i] = "\n"
        /\ source[i + 1] = k[1]
        /\ SubSeq(source, i + 1, i + Len(EntryLine(k)) + 1) = EntryLine(k) \o <<"\n">> }

HasRepeatedKey == \E k \in FrontmatterKeys : Cardinality(EntryStarts(k)) >= 2

UnparsableFrontmatter == docPhase = "body" /\ (HasInvalidLine \/ HasRepeatedKey)

(* the source begins with "---": only trailing white space is trimmed *)
SourceTrimmed ==
    LET n == CHOOSE m \in 1..Len(source) :
                 /\ source[m] \notin {" ", "\n"}
                 /\ \A j \in (m + 1)..Len(source) : source[j] \in {" ", "\n"}
    IN  SubSeq(source, 1, n)

C11_InvalidYamlFallsBack ==
    (docPc = "done" /\ UnparsableFrontmatter) =>
        /\ DOMAIN parsed = {"ext", "metadata", "config", "template"}
        /\ parsed.ext = Obj(<<>>)
        /\ parsed.metadata = Obj(<<>>)
        /\ parsed.config = Obj(<<>>)
        /\ parsed.template = Str(SourceTrimmed)

C11_Witness ==
    /\ docPc = "done"
    /\ docPhase = "body"
    /\ HasInvalidLine
    /\ Last(source) = " "
    /\ parsed.template.val # source

C11_WitnessRepeatedKey ==
    /\ docPc = "done"
    /\ docPhase = "body"
    /\ HasRepeatedKey
    /\ ~HasInvalidLine

(***************************************************************************)
(* C12: line endings are normalized before parsing: the document saved     *)
(* with CRLF line endings, and saved with CR line endings, parses to what  *)
(* the document saved with LF line endings parses to: the same fields, the *)
(* same raw, and the same template once written with LF line endings.      *)
(***************************************************************************)
RECURSIVE ToLF(_)
ToLF(s) ==
    IF s = <<>> THEN <<>>
    ELSE IF Head(s) = "\r" /\ Len(s) >= 2 /\ s[2] = "\n" THEN <<"\n">> \o ToLF(Tail(Tail(s)))
    ELSE IF Head(s) = "\r" THEN <<"\n">> \o ToLF(Tail(s))
    ELSE <<Head(s)>> \o ToLF(Tail(s))

SameParse(p, q) ==
    /\ DOMAIN p = DOMAIN q
    /\ \A f \in DOMAIN p \ {"template"} : p[f] = q[f]
    /\ ToLF(p.template.val) = ToLF(q.template.val)

C12_LineEndingsNormalized ==
    docPc = "done" => \A e \in DOMAIN parsedEol : SameParse(parsedEol[e], parsed)

C12_FrontmatterMissedWithCR ==
    /\ ParsedOk
    /\ DOMAIN Raw # {}
    /\ "raw" \notin DOMAIN parsedEol.CR
    /\ parsedEol.CR.template.val = WithLineEndings(source, <<"\r">>)

C12_RawDiffersWithCRLF ==
    /\ ParsedOk
    /\ "raw" \in DOMAIN parsedEol.CRLF
    /\ parsedEol.CRLF.raw # parsed.raw

(***************************************************************************)
(* Readers of a Picoschema result: the object schema built for a mapping,  *)
(* and the schema found in it for the value of one of its keys.            *)
(***************************************************************************)
PicoBuilt == picoPc = "done" /\ picoOut.kind = "ok" /\ pico.kind = "map"

KeyKind(key) ==
    IF key = WildcardPropertyName THEN "wildcard"
    ELSE IF ~KeyHasParenthetical(key) THEN "plain"
    ELSE IF KeyParenthetical(key)[1] = <<"array">> THEN "array"
    ELSE IF KeyParenthetical(key)[1] = <<"object">> THEN "object"
    ELSE IF KeyParenthetical(key)[1] = <<"enum">> THEN "enum"
    ELSE "unknown"

PropertyOf(schema, key) == schema["properties"][PropertyName(key)]

ValueSchema(schema, key) ==
    CASE KeyKind(key) = "wildcard" -> schema["additionalProperties"].val
      [] KeyKind(key) = "array"    -> PropertyOf(schema, key)["items"]
      [] OTHER                     -> PropertyOf(schema, key)

OptionalKeys(obj) == { k \in DOMAIN obj.val : k # WildcardPropertyName /\ IsOptionalKey(k) }

NotRequired(schema, key) ==
    \/ "required" \notin DOMAIN schema
    \/ \A i \in 1..Len(schema["required"]) : schema["required"][i] # PropertyName(key)

WithoutType(schema) == [f \in DOMAIN schema \ {"type"} |-> schema[f]]

IsNullableTypeList(t) ==
    /\ t.kind = "list"
    /\ Len(t.val) = 2
    /\ t.val[1].kind = "name"
    /\ t.val[2] = TypeName("null")

NilCount(values) == Cardinality({ i \in 1..Len(values) : values[i] = GoNil })

(* the schema the value of a key parses to on its own *)
ParsedValue(value) == (CHOOSE r \in parsePico(picoResolver, value) : TRUE).schema

(***************************************************************************)
(* C13: in every object schema produced, a property whose key is optional  *)
(* is absent from required and nullable: its type is [type, "null"] with   *)
(* its other fields kept (plain, array and object keys, named schemas      *)
(* included), or null is among its enum values, once.  A property parsed   *)
(* from `any`, which has no type and admits null as it is, counts as       *)
(* nullable.                                                               *)
(***************************************************************************)
AdmitsEverything(prop) == "type" \notin DOMAIN prop /\ "enum" \notin DOMAIN prop

RECURSIVE C13_NullableIn(_, _)
C13_NullableIn(obj, schema) ==
    /\ \A k \in OptionalKeys(obj) :
          /\ NotRequired(schema, k)
          /\ IF KeyKind(k) = "enum"
             THEN /\ containsInterface(PropertyOf(schema, k)["enum"], GoNil)
                  /\ NilCount(PropertyOf(schema, k)["enum"]) = 1
             ELSE /\ \/ AdmitsEverything(PropertyOf(schema, k))
                     \/ /\ "type" \in DOMAIN PropertyOf(schema, k)
                        /\ IsNullableTypeList(PropertyOf(schema, k)["type"])
                  /\ KeyKind(k) = "plain" =>
                        WithoutType(PropertyOf(schema, k)) = WithoutType(ParsedValue(obj.val[k]))
    /\ \A k \in DOMAIN obj.val :
          obj.val[k].kind = "map" => C13_NullableIn(obj.val[k], ValueSchema(schema, k))

C13_OptionalIsNullable == PicoBuilt => C13_NullableIn(pico, picoOut.schema)

(***************************************************************************)
(* What parsePico does for an optional key: in every object schema it      *)
(* builds, the property is absent from required.  Under a plain key its    *)
(* type becomes [type, "null"], other fields kept, exactly when the schema *)
(* parsed for its value has a single type name; otherwise (`any`, a named  *)
(* schema without a single type name) it is the parsed schema unchanged.   *)
(* Under (array) its type is ["array", "null"]; under (object) its type is *)
(* [t, "null"] with t the type of the parsed schema, nil when it has none; *)
(* under (enum) null is appended to the values unless already among them.  *)
(***************************************************************************)
RECURSIVE OptionalIn(_, _)
OptionalIn(obj, schema) ==
    /\ \A k \in OptionalKeys(obj) :
          LET prop   == PropertyOf(schema, k)
              value  == obj.val[k]
          IN  /\ NotRequired(schema, k)
              /\ KeyKind(k) = "plain" =>
                    IF TypeOf(ParsedValue(value)).kind = "name"
                    THEN /\ prop["type"] = TypeList(<<ParsedValue(value)["type"], TypeName("null")>>)
                         /\ WithoutType(prop) = WithoutType(ParsedValue(value))
                    ELSE prop = ParsedValue(value)
              /\ KeyKind(k) = "array" =>
                    /\ prop["type"] = TypeList(<<TypeName("array"), TypeName("null")>>)
                    /\ prop["items"] = ParsedValue(value)
              /\ KeyKind(k) = "object" =>
                    /\ prop["type"] = TypeList(<<TypeOf(ParsedValue(value)), TypeName("null")>>)
                    /\ WithoutType(prop) = WithoutType(ParsedValue(value))
              /\ KeyKind(k) = "enum" =>
                    prop["enum"] = IF containsInterface(value.val, GoNil)
                                   THEN value.val
                                   ELSE Append(value.val, GoNil)
    /\ \A k \in DOMAIN obj.val :
          obj.val[k].kind = "map" => OptionalIn(obj.val[k], ValueSchema(schema, k))

OptionalNullableWhenTyped == PicoBuilt => OptionalIn(pico, picoOut.schema)

C13_NamedEnumNotNullable ==
    /\ PicoBuilt
    /\ picoResolver
    /\ pico = GoMap(<<"a", "?">> :> GoString(<<"Choice">>))
    /\ picoOut.schema["properties"][<<"a">>] = ChoiceSchema

C13_NilInTypeList ==
    /\ PicoBuilt
    /\ pico = GoMap(<<"c", "?", "(", "object", ")">> :> GoString(<<"any">>))
    /\ picoOut.schema["properties"][<<"c">>]["type"] = TypeList(<<GoNil, TypeName("null")>>)

(***************************************************************************)
(* C14: Picoschema returns an error and no schema when, at any depth of    *)
(* the schema, a parenthetical is none of array, object, enum; a type name *)
(* is no scalar and no resolver is configured, or the resolver returns nil *)
(* or an error for it; or a value is neither a string nor a mapping (the   *)
(* list of an enum key is a value of its own kind and is no such case).    *)
(* (nil, nil) is returned for nil input only.  A mapping that Parse takes  *)
(* for JSON Schema and returns as it is, is not parsed and not covered.    *)
(***************************************************************************)
UnresolvedName(str) ==
    LET typeName == extractDescription(str)[1]
    IN  /\ ~IsScalarType(typeName)
        /\ \/ ~picoResolver
           \/ typeName \notin { <<"MySchema">>, <<"Choice">> }

RECURSIVE InvalidAt(_)
InvalidAt(v) ==
    CASE v.kind = "string" -> UnresolvedName(v.val)
      [] v.kind = "map" ->
            \E k \in DOMAIN v.val :
                CASE KeyKind(k) = "unknown" -> TRUE
                  [] KeyKind(k) = "enum"    -> v.val[k].kind \notin {"string", "map", "list"}
                  [] OTHER                  -> InvalidAt(v.val[k])
      [] OTHER -> TRUE

TakenForJsonSchema == picoPc = "done" /\ picoOut.kind = "asis"

C14_InvalidSchemaIsError ==
    (picoPc = "done" /\ ~TakenForJsonSchema) =>
        /\ (pico # GoNil /\ InvalidAt(pico)) => picoOut.kind = "error"
        /\ picoOut.kind = "nilnil" => pico = GoNil

C14_EnumValuePanics ==
    /\ picoPc = "done"
    /\ pico = GoMap(<<"d", "(", "enum", ")">> :> GoNumber)
    /\ picoOut.kind = "panic"

(* with the enum values that are lists, the four cases do give an error *)
RECURSIVE EnumValuesAreLists(_)
EnumValuesAreLists(v) ==
    v.kind = "map" =>
        \A k \in DOMAIN v.val :
            IF KeyKind(k) = "enum" THEN v.val[k].kind = "list"
            ELSE EnumValuesAreLists(v.val[k])

InvalidSchemaIsErrorUnlessPanic ==
    (picoPc = "done" /\ ~TakenForJsonSchema /\ EnumValuesAreLists(pico)) =>
        /\ (pico # GoNil /\ InvalidAt(pico)) <=> picoOut.kind = "error"
        /\ picoOut.kind = "nilnil" <=> pico = GoNil
        /\ picoOut.kind # "panic"

(***************************************************************************)
(* Readers of a compiled engine.                                           *)
(***************************************************************************)
Compiled == envPc = "compiled"

WasRegistered(n) == n \in DOMAIN partialsBefore

ResolverGives(n) == partialResolver.present /\ partialResolver.of[n] # Null

\* A body is available: already registered, or returned non-null.
BodyAvailable(n) == WasRegistered(n) \/ ResolverGives(n)

BodyOf(n) ==
    IF WasRegistered(n) THEN partialsBefore[n] ELSE partialResolver.of[n].val

RECURSIVE ReferencedFrom(_)
ReferencedFrom(seen) ==
    LET more == UNION {identifyPartials(BodyOf(n)) :
                          n \in {m \in seen : BodyAvailable(m)}}
    IN  IF more \subseteq seen THEN seen ELSE ReferencedFrom(seen \cup more)

\* The names the template references, directly or through partial bodies.
Referenced == ReferencedFrom(identifyPartials(template))

(***************************************************************************)
(* C15: once compile has resolved partials, every partial name that the    *)
(* template references, directly or through the bodies of other partials,  *)
(* is registered if a body is available for it (it was registered, or the  *)
(* resolver returns non-null for it); a name for which the resolver        *)
(* returns null and that was not registered stays unregistered.            *)
(***************************************************************************)
C15_ReferencedPartialsRegistered ==
    Compiled =>
        /\ \A n \in Referenced : BodyAvailable(n) => n \in DOMAIN partials
        /\ \A n \in PartialNames :
              (partialResolver.present /\ partialResolver.of[n] = Null
               /\ ~WasRegistered(n)) => n \notin DOMAIN partials

\* A registered partial's body names a partial that only the resolver has.
ThroughRegistered ==
    \E n \in DOMAIN partialsBefore, m \in PartialNames :
        /\ n \in identifyPartials(template)
        /\ partialsBefore[n] # <<>>
        /\ m \in identifyPartials(partialsBefore[n])
        /\ ~WasRegistered(m)
        /\ ResolverGives(m)
        /\ Truthy(partialResolver.of[m])

\* What resolvePartials does achieve: it follows the bodies the resolver
\* returned, never the bodies that were registered before the call.
RECURSIVE ResolvedFrom(_)
ResolvedFrom(seen) ==
    LET followed == {m \in seen : ~HasPartial(partialsBefore, m)
                                  /\ Truthy(partialResolver.of[m])}
        more == UNION {identifyPartials(partialResolver.of[n].val) :
                          n \in followed}
    IN  IF more \subseteq seen THEN seen ELSE ResolvedFrom(seen \cup more)

ResolvedPartialsRegistered ==
    (Compiled /\ partialResolver.present) =>
        \A n \in ResolvedFrom(identifyPartials(template)) :
            Truthy(partialResolver.of[n]) => n \in DOMAIN partials

C15_RegisteredBodyNotFollowed ==
    ~(Compiled /\ ThroughRegistered
      /\ \E m \in Referenced : BodyAvailable(m) /\ m \notin DOMAIN partials)

C15_EmptyContentNotRegistered ==
    ~(Compiled /\ partialResolver.present
      /\ \E n \in identifyPartials(template) :
            /\ partialResolver.of[n] = Str(<<>>)
            /\ n \notin DOMAIN partials)

(***************************************************************************)
(* Readers of a resolveTools call.                                         *)
(***************************************************************************)
ToolsResolved == envPc = "tools"

ToolsGiven == toolBase.tools # Undefined

GivenTools == toolBase.tools.list

GivenToolDefs ==
    IF toolBase.toolDefs = Undefined THEN <<>> ELSE toolBase.toolDefs.list

OutTools == toolOut.value.tools.list

OutToolDefs == toolOut.value.toolDefs.list

Count(s, x) == Cardinality({i \in DOMAIN s : s[i] = x})

DefsNamed(s, n) == Cardinality({i \in DOMAIN s : s[i].name = n})

SentToResolver(n) ==
    /\ toolResolver.present
    /\ n \notin DOMAIN tools
    /\ \E i \in DOMAIN GivenTools : GivenTools[i] = n

(***************************************************************************)
(* C16: after resolveTools succeeds every name of the given `tools` list   *)
(* is accounted for once per occurrence: by the registry's definition in   *)
(* toolDefs when the registry has the name, else by the resolver's         *)
(* definition in toolDefs when a resolver is configured, else by the name  *)
(* in `tools`; never both; the definitions toolDefs held come first and    *)
(* are kept; and resolveTools fails when the resolver returns null for a   *)
(* name it is asked for.                                                   *)
(***************************************************************************)
C16_ToolsAccountedFor ==
    (ToolsResolved /\ ToolsGiven) =>
        /\ toolOut.kind = "fulfilled" =>
              /\ Len(GivenToolDefs) <= Len(OutToolDefs)
              /\ \A n \in ToolNames :
                    LET k == Count(GivenTools, n)
                    IN  IF n \in DOMAIN tools
                        THEN /\ Count(OutToolDefs, tools[n]) = k
                             /\ DefsNamed(OutToolDefs, n) = k
                             /\ Count(OutTools, n) = 0
                        ELSE IF toolResolver.present
                        THEN /\ Count(OutToolDefs, toolResolver.of[n]) = k
                             /\ DefsNamed(OutToolDefs, n) = k
                             /\ Count(OutTools, n) = 0
                        ELSE /\ Count(OutTools, n) = k
                             /\ DefsNamed(OutToolDefs, n) = 0
              /\ Len(OutToolDefs) + Len(OutTools)
                    = Len(GivenToolDefs) + Len(GivenTools)
              /\ SubSeq(OutToolDefs, 1, Len(GivenToolDefs)) = GivenToolDefs
        /\ (\E n \in ToolNames : SentToResolver(n) /\ toolResolver.of[n] = Null)
              => toolOut = Rejected

\* The registry wins over a resolver that knows the name, another name goes
\* to the resolver, and the prompt already held a definition.
C16_Witness ==
    /\ ToolsResolved /\ ToolsGiven
    /\ toolOut.kind = "fulfilled"
    /\ toolResolver.present
    /\ GivenToolDefs # <<>>
    /\ \E n, m \in ToolNames :
          /\ n \in DOMAIN tools /\ toolResolver.of[n] # Null
          /\ Count(GivenTools, n) > 0
          /\ SentToResolver(m)

C16_WitnessLeftInTools ==
    /\ ToolsResolved /\ ToolsGiven
    /\ toolOut.kind = "fulfilled"
    /\ ~toolResolver.present
    /\ OutTools # <<>>
    /\ OutToolDefs # <<>>

C16_WitnessRejected ==
    /\ ToolsResolved /\ ToolsGiven
    /\ toolOut = Rejected
    /\ \E n \in ToolNames : n \in DOMAIN tools /\ Count(GivenTools, n) > 0

(***************************************************************************)
(* Readers of a render call.                                               *)
(***************************************************************************)
Rendered == envPc = "rendered"

RenderFulfilled == renderOut.kind = "fulfilled"

RenderedPrompt == renderOut.value

OptionsGiven == IF renderOptions = Undefined THEN <<>> ELSE renderOptions.val

\* The layers of the merge, earliest first, as the claim names them.
ModelOfLayers ==
    IF Has(OptionsGiven, "model") THEN OptionsGiven["model"]
    ELSE IF Has(parsedMetadata, "model") THEN parsedMetadata["model"]
    ELSE defaultModel

ModelDefaultConfig ==
    IF ModelOfLayers # Undefined /\ ModelOfLayers.val[1] \in DOMAIN modelConfigs
    THEN modelConfigs[ModelOfLayers.val[1]]
    ELSE <<>>

ConfigOf(layer) == IF Has(layer, "config") THEN layer["config"] ELSE <<>>

ConfigLayers ==
    <<ModelDefaultConfig, ConfigOf(parsedMetadata), ConfigOf(OptionsGiven)>>

FieldLayers == <<parsedMetadata, OptionsGiven>>

LatestWith(layers, k) ==
    SetMax({0} \cup {i \in DOMAIN layers : Has(layers[i], k)})

(***************************************************************************)
(* C17: in a rendered prompt every config key holds the value of the       *)
(* latest of the layers (default config of the selected model, frontmatter *)
(* config, options.config) that has the key, where the selected model is   *)
(* options.model, else the frontmatter model, else the default model; a    *)
(* key no layer has is absent; `model` and `name` hold the value of the    *)
(* later of frontmatter and options that has the field; and there is no    *)
(* `input` field.                                                          *)
(***************************************************************************)
C17_MergePrecedence ==
    (Rendered /\ RenderFulfilled) =>
        /\ Has(RenderedPrompt, "config")
        /\ \A k \in ConfigKeys :
              LET i == LatestWith(ConfigLayers, k)
              IN  IF i = 0 THEN ~Has(RenderedPrompt["config"], k)
                  ELSE /\ Has(RenderedPrompt["config"], k)
                       /\ RenderedPrompt["config"][k] = ConfigLayers[i][k]
        /\ \A f \in {"model", "name"} :
              LET i == LatestWith(FieldLayers, f)
              IN  IF i = 0 \/ FieldLayers[i][f] = Undefined
                  THEN ~Has(RenderedPrompt, f)
                  ELSE /\ Has(RenderedPrompt, f)
                       /\ RenderedPrompt[f] = FieldLayers[i][f]
        /\ ~Has(RenderedPrompt, "input")

\* All three config layers meet: options picks the model and overrides one
\* key, the frontmatter names another model, sets the key and has `input`.
C17_Witness ==
    /\ Rendered /\ RenderFulfilled
    /\ Has(OptionsGiven, "model") /\ Has(parsedMetadata, "model")
    /\ OptionsGiven["model"] # parsedMetadata["model"]
    /\ Has(ConfigOf(OptionsGiven), "temperature")
    /\ ~Has(ConfigOf(OptionsGiven), "topK")
    /\ Has(ConfigOf(parsedMetadata), "temperature")
    /\ ~Has(ConfigOf(parsedMetadata), "topK")
    /\ Has(ModelDefaultConfig, "topK")
    /\ Has(parsedMetadata, "input")
    /\ RenderedPrompt["config"] = ("temperature" :> 4 @@ "topK" :> 1)

C17_WitnessDefaultModel ==
    /\ Rendered /\ RenderFulfilled
    /\ ~Has(OptionsGiven, "model") /\ ~Has(parsedMetadata, "model")
    /\ defaultModel # Undefined
    /\ Has(ConfigOf(parsedMetadata), "temperature")
    /\ Has(ModelDefaultConfig, "temperature")
    /\ Has(ModelDefaultConfig, "topK")
    /\ RenderedPrompt["config"] = ("temperature" :> 3 @@ "topK" :> 1)

(***************************************************************************)
(* C18: a template variable that data.input lacks renders as the value     *)
(* the prompt's frontmatter gives it under input.default, and a variable   *)
(* that data.input has renders as the data.input value.                    *)
(***************************************************************************)
VariableOnly == template = <<"{{location}}">>

DataInput == IF Has(renderData, "input") THEN renderData["input"] ELSE <<>>

FrontmatterDefault ==
    IF Has(parsedMetadata, "input") /\ Has(parsedMetadata["input"], "default")
    THEN parsedMetadata["input"]["default"]
    ELSE <<>>

C18_InputDefaults ==
    (Rendered /\ RenderFulfilled /\ VariableOnly) =>
        IF Has(DataInput, "location")
        THEN RenderedPrompt["messages"] = <<Msg("user", DataInput["location"])>>
        ELSE Has(FrontmatterDefault, "location") =>
                RenderedPrompt["messages"]
                    = <<Msg("user", FrontmatterDefault["location"])>>

\* The frontmatter default is the only value on offer and nothing renders.
C18_FrontmatterDefaultIgnored ==
    ~(/\ Rendered /\ RenderFulfilled /\ VariableOnly
      /\ Has(FrontmatterDefault, "location")
      /\ ~Has(DataInput, "location")
      /\ ~Has(OptionsGiven, "input")
      /\ RenderedPrompt["messages"] = <<>>)

\* What the compiled function does: data.input, else options.input.default.
OptionsDefault ==
    IF Has(OptionsGiven, "input") /\ Has(OptionsGiven["input"], "default")
    THEN OptionsGiven["input"]["default"]
    ELSE <<>>

DataInputThenOptionsDefault ==
    (Rendered /\ RenderFulfilled /\ VariableOnly) =>
        RenderedPrompt["messages"] =
            IF Has(DataInput, "location")
            THEN <<Msg("user", DataInput["location"])>>
            ELSE IF Has(OptionsDefault, "location")
            THEN <<Msg("user", OptionsDefault["location"])>>
            ELSE <<>>

(***************************************************************************)
(* C19: render called a second time with the same source, data and options *)
(* on the same engine returns what the first call returned, whatever the   *)
(* first call left in the engine; in particular toolDefs is no longer the  *)
(* second time.                                                            *)
(***************************************************************************)
RenderedAgain == envPc = "again"

C19_WitnessRejected ==
    /\ RenderedAgain
    /\ renderOut = Rejected
    /\ renderOut2 = Rejected

(***************************************************************************)
(* C20: defineHelper under a name that is already registered succeeds and  *)
(* leaves the registry as it was when the function is the registered one,  *)
(* and fails when the function is another one, the registered function     *)
(* staying in effect.                                                      *)
(***************************************************************************)
Redefined == lastDefine.name \in DOMAIN lastDefine.before

C20_HelperRedefinition ==
    Redefined =>
        IF lastDefine.before[lastDefine.name] = lastDefine.fn
        THEN ~lastDefine.threw /\ helpers = lastDefine.before
        ELSE lastDefine.threw
             /\ helpers[lastDefine.name] = lastDefine.before[lastDefine.name]

\* A built-in helper has been replaced by another function, without error.
C20_BuiltinReplaced ==
    ~(/\ Redefined
      /\ lastDefine.name \in DOMAIN BuiltinHelpers
      /\ lastDefine.before[lastDefine.name] = "builtin"
      /\ helpers[lastDefine.name] = "g"
      /\ ~lastDefine.threw)

\* What defineHelper does: the last function given for a name is the one
\* registered, and the call never fails.
LastDefinitionWins ==
    lastDefine # NoDefine =>
        /\ ~lastDefine.threw
        /\ helpers = Put(lastDefine.before, lastDefine.name, lastDefine.fn)
        /\ lastDefine.name \in knownHelpers

(***************************************************************************)
(* C21: DefineHelper (DefinePartial) under a name that is already known    *)
(* returns an error and leaves the engine as it was, so the known names    *)
(* and the registration used when rendering are the earlier ones; under a  *)
(* fresh name it succeeds, registers what it was given and marks the name  *)
(* known.                                                                  *)
(***************************************************************************)
CalledName == dpCall.name[1]

C21_WitnessPartial ==
    /\ dpCall.op = "DefinePartial"
    /\ CalledName \in dpCall.before.knownPartials
    /\ dpCall.result = AlreadyRegistered
    /\ Cardinality(dp.knownPartials) = 1

(***************************************************************************)
(* C22: the schema registry is last-writer-wins by name: a name defined    *)
(* with a non-empty name and a non-nil schema exists, LookupSchema returns *)
(* the schema of the most recent DefineSchema for it, each DefineSchema    *)
(* returns the schema it was given, and DefineSchema with an empty name or *)
(* a nil schema panics.                                                    *)
(***************************************************************************)
FatalArguments == dpCall.name = <<>> \/ dpCall.arg = GoNil

C22_SchemaLastWriterWins ==
    /\ \A name \in DOMAIN dpLog :
          LookupSchema(dp, name) = [schema |-> dpLog[name], exists |-> TRUE]
    /\ dpCall.op = "LookupSchema" /\ dpCall.name \in DOMAIN dpLog =>
          dpCall.result = [schema |-> dpLog[dpCall.name], exists |-> TRUE]
    /\ dpCall.op = "DefineSchema" =>
          IF FatalArguments THEN dpCall.result = Panic
          ELSE dpCall.result = dpCall.arg

\* Person defined twice with different schemas, then looked up.
C22_Witness ==
    /\ dpCall.op = "LookupSchema"
    /\ dpCall.name = <<"Person">>
    /\ dpCall.result = [schema |-> newSchema, exists |-> TRUE]
    /\ dpLog[<<"Person">>] = newSchema
    /\ <<"Test">> \in DOMAIN dpLog /\ dpLog[<<"Test">>] = testSchema

C22_WitnessFatal ==
    /\ dpCall.op = "DefineSchema"
    /\ FatalArguments
    /\ dpCall.result = Panic

(***************************************************************************)
(* C23: partial resolution terminates: once compile awaits                 *)
(* resolvePartials, the template is eventually compiled, whatever the      *)
(* bodies reference (themselves, each other in a cycle) and in whatever    *)
(* order the resolver's promises settle; and the resolver calls made stay  *)
(* below the bound MaxCalls, so that no call is ever held back by it.      *)
(***************************************************************************)
C23_ResolvePartialsTerminates ==
    /\ (envPc = "partials") ~> (envPc = "compiled")
    /\ [](Calls(invoked) < MaxCalls)

\* A cycle p -> q -> p was followed and resolution has returned.
C23_Witness ==
    /\ envPc = "compiled"
    /\ partialResolver.present
    /\ partialResolver.of["p"] = Str(<<">q">>)
    /\ partialResolver.of["q"] = Str(<<">p">>)
    /\ HasPartial(partials, "p") /\ HasPartial(partials, "q")
    /\ defined["p"] > 0 /\ defined["q"] > 0

\* A partial that references itself.
C23_WitnessSelf ==
    /\ envPc = "compiled"
    /\ partialResolver.present
    /\ partialResolver.of["p"] = Str(<<">p">>)
    /\ defined["p"] > 0

(***************************************************************************)
(* C27: within one resolvePartials run the partial resolver is invoked at  *)
(* most once for each name and no name is registered twice, in whatever    *)
(* order the promises settle.                                              *)
(***************************************************************************)
C27_FetchedAtMostOnce ==
    \A n \in PartialNames : invoked.partial[n] <= 1 /\ defined[n] <= 1

\* q is referenced by the template and by the body of p: both references
\* found it unregistered, and it was fetched and registered twice.
C27_FetchedTwice ==
    /\ envPc = "compiled"
    /\ template = <<">p", ">q">>
    /\ partialResolver.present
    /\ partialResolver.of["p"] = Str(<<">q">>)
    /\ partialResolver.of["q"] = Str(<<"T">>)
    /\ invoked.partial["q"] = 2
    /\ defined["q"] = 2

(***************************************************************************)
(* C24: stage ordering in render: once the template is compiled no         *)
(* partialResolver call is pending; once the template body is rendered no  *)
(* toolResolver or schemaResolver call is pending; and from the rendering  *)
(* on, through the message parse, no resolver is invoked.                  *)
(***************************************************************************)
TemplateCompiled == envPc \in {"compiled", "tools", "schema", "rendered", "messages"}

BodyRendered == envPc \in {"rendered", "messages"}

C24_StageOrdering ==
    /\ [](TemplateCompiled => \A n \in PartialNames : inFlight.partial[n] = 0)
    /\ [](BodyRendered => Calls(inFlight) = 0)
    /\ [][BodyRendered => invoked' = invoked]_vars
    /\ [][TemplateCompiled => invoked'.partial = invoked.partial]_vars

\* A render that used all three resolvers and reached the message parse.
C24_Witness ==
    /\ envPc = "messages"
    /\ Sum(invoked.partial, PartialNames) > 1
    /\ Sum(invoked.tool, ToolNames) > 1
    /\ invoked.schema = 1

\* A render that failed while a toolResolver call was still pending.
C24_WitnessFailed ==
    /\ envPc = "failed"
    /\ Sum(inFlight.tool, ToolNames) > 0

(***************************************************************************)
(* C28: the tool definitions resolveTools appends to toolDefs are in the   *)
(* order of their names in `tools`, whichever resolver promise settles     *)
(* first and whether a name comes from the registry or the resolver.       *)
(***************************************************************************)
ToolsReturned == envPc \in {"schema", "rendered", "messages"}

AppendedNames == [i \in DOMAIN asyncOut.toolDefs |-> asyncOut.toolDefs[i].name]

NamesMoved ==
    IF toolBase.tools = Undefined THEN <<>>
    ELSE SelectSeq(toolBase.tools.list,
                   LAMBDA n : n \in DOMAIN tools \/ toolResolver.present)

C28_ToolDefsInListOrder == ToolsReturned => AppendedNames = NamesMoved

\* tools: [b, a] with a registered and b resolved: a's definition is first.
C28_RegistryFirst ==
    /\ ToolsReturned
    /\ toolBase.tools = Some(<<"b", "a">>)
    /\ DOMAIN tools = {"a"}
    /\ AppendedNames = <<"a", "b">>

\* tools: [a, b], both resolved, b's promise settling first.
C28_SettleOrder ==
    /\ ToolsReturned
    /\ toolBase.tools = Some(<<"a", "b">>)
    /\ DOMAIN tools = {}
    /\ AppendedNames = <<"b", "a">>

(***************************************************************************)
(* C25: every object parsePico synthesizes, at every nesting level, has    *)
(* additionalProperties = false unless its mapping holds the wildcard key; *)
(* then it is what parsePico makes of that key's value, and the wildcard   *)
(* key is neither among the properties nor in required.                    *)
(***************************************************************************)
RECURSIVE C25_WildcardIn(_, _)
C25_WildcardIn(obj, schema) ==
    /\ "additionalProperties" \in DOMAIN schema
    /\ IF WildcardPropertyName \in DOMAIN obj.val
       THEN LET value == obj.val[WildcardPropertyName]
                extra == schema["additionalProperties"]
            IN  /\ extra.kind = "schema"
                /\ value.kind = "string" =>
                      extra.val = ParsePicoString(picoResolver, value.val).schema
                /\ value.kind = "map" => C25_WildcardIn(value, extra.val)
       ELSE schema["additionalProperties"] = NoAdditional
    /\ WildcardPropertyName \notin DOMAIN schema["properties"]
    /\ "required" \in DOMAIN schema =>
          \A i \in DOMAIN schema["required"] :
              schema["required"][i] # WildcardPropertyName
    /\ \A k \in DOMAIN obj.val \ {WildcardPropertyName} :
          /\ obj.val[k].kind = "map"
          /\ KeyKind(k) \in {"plain", "array", "object"}
          => C25_WildcardIn(obj.val[k], ValueSchema(schema, k))

C25_WitnessNested ==
    /\ PicoBuilt
    /\ WildcardPropertyName \in DOMAIN pico.val
    /\ pico.val[WildcardPropertyName].kind = "map"
    /\ picoOut.schema["additionalProperties"].val["additionalProperties"] = NoAdditional

(***************************************************************************)
(* C30: parsePico is deterministic in its input mapping: the schema        *)
(* returned is the same whatever order Go visits the keys in, also when    *)
(* two keys yield the same property name; `required` is sorted and absent  *)
(* when empty.                                                             *)
(***************************************************************************)
RequiredSorted(schema) ==
    "required" \in DOMAIN schema =>
        /\ schema["required"] # <<>>
        /\ \A i \in 1..(Len(schema["required"]) - 1) :
              NameRank(schema["required"][i]) <= NameRank(schema["required"][i + 1])

C30_OrderIndependent ==
    PicoBuilt =>
        /\ \A r \in Picoschema(pico, picoResolver) : r = picoOut
        /\ RequiredSorted(picoOut.schema)

\* `a` and `a?` in one mapping: the property is the one of either key.
C30_TwinKeys ==
    /\ PicoBuilt
    /\ pico = GoMap((<<"a">> :> GoString(<<"string">>)) @@
                    (<<"a", "?">> :> GoString(<<"boolean">>)))
    /\ Cardinality(Picoschema(pico, picoResolver)) = 2
    /\ picoOut.schema["properties"][<<"a">>]["type"] = TypeName("string")
    /\ picoOut.schema["required"] = <<<<"a">>>>

\* Without such keys the schema does not depend on the order.
RECURSIVE NoTwins(_)
NoTwins(v) ==
    v.kind = "map" =>
        /\ \A k, x \in DOMAIN v.val \ {WildcardPropertyName} :
              PropertyName(k) = PropertyName(x) => k = x
        /\ \A k \in DOMAIN v.val : NoTwins(v.val[k])

OrderIndependentWithoutTwins ==
    (PicoBuilt /\ NoTwins(pico))
        => /\ \A r \in Picoschema(pico, picoResolver) : r = picoOut
           /\ RequiredSorted(picoOut.schema)

(***************************************************************************)
(* C29: Picoschema leaves the schema registry and its input unchanged: a   *)
(* reference `Name, description` does not modify the schema object the     *)
(* resolver holds, so a later reference to the bare name yields a schema   *)
(* without that description; and parsing a mapping with `properties` but   *)
(* no `type` does not modify the caller's mapping.                         *)
(***************************************************************************)
PicoReturned == picoPc \in {"done", "later"}

C29_PicoschemaFrame ==
    /\ PicoReturned => picoStore = StoredSchemas
    /\ PicoReturned => picoAfter = pico
    /\ (picoPc = "later" /\ picoLater.out.kind = "ok") =>
          "description" \notin DOMAIN picoLater.out.schema

\* `MySchema, desc` under a property, then `MySchema`: it carries desc.
C29_DescriptionKept ==
    /\ picoPc = "later"
    /\ pico = GoMap(<<"a">> :> GoString(<<"MySchema", ",", " ", "desc">>))
    /\ picoLater.name = <<"MySchema">>
    /\ picoLater.out.kind = "ok"
    /\ "description" \in DOMAIN picoLater.out.schema
    /\ picoLater.out.schema["description"] = <<"desc">>

\* The caller's mapping has gained a `type`.
C29_CallerMappingWritten ==
    /\ picoPc = "done"
    /\ pico.kind = "map"
    /\ <<"type">> \notin DOMAIN pico.val
    /\ picoAfter.kind = "map"
    /\ <<"type">> \in DOMAIN picoAfter.val
    /\ picoAfter.val[<<"type">>] = GoString(<<"object">>)

\* What the call does leave alone: without a described reference the
\* resolver's objects are as before, and a mapping that is parsed as
\* Picoschema, or that has its `type`, is as the caller wrote it.
FrameWhenNothingDescribed ==
    PicoReturned =>
        /\ Described(picoResolver, pico) = {} => picoStore = StoredSchemas
        /\ picoOut.kind # "asis" => picoAfter = pico
        /\ (pico.kind = "map" /\ <<"type">> \in DOMAIN pico.val) => picoAfter = pico

(***************************************************************************)
(* C26: the merged metadata holds no field, at any depth, whose value is   *)
(* undefined or an empty mapping.                                          *)
(***************************************************************************)
MetadataReturned == envPc = "metadata" /\ renderOut.kind = "fulfilled"

RECURSIVE NoUndefinedIn(_)
NoUndefinedIn(obj) ==
    \A k \in DOMAIN obj :
        /\ k \in NumberFields \/ obj[k] # Undefined
        /\ k \in MappingFields => NoUndefinedIn(obj[k])

RECURSIVE NoEmptyMappingIn(_)
NoEmptyMappingIn(obj) ==
    \A k \in DOMAIN obj :
        k \in MappingFields => obj[k] # <<>> /\ NoEmptyMappingIn(obj[k])

C26_NoUndefinedNoEmpty ==
    MetadataReturned =>
        NoUndefinedIn(renderOut.value) /\ NoEmptyMappingIn(renderOut.value)

(***************************************************************************)
(* C26 as amended: the merged metadata holds no field, at any depth of its *)
(* mappings, whose value is undefined; empty mappings stay, and config is  *)
(* always there, empty when no layer gives it a defined entry.             *)
(***************************************************************************)
GivenEntries(layer) ==
    IF layer = Undefined \/ ~Defined(Optional(layer), "config") THEN {}
    ELSE {k \in DOMAIN layer.val["config"] :
             k \in NumberFields \/ layer.val["config"][k] # Undefined}

C26_NoUndefinedFields ==
    MetadataReturned =>
        /\ NoUndefinedIn(renderOut.value)
        /\ "config" \in DOMAIN renderOut.value
        /\ (/\ GivenEntries(Obj(parsedMetadata)) = {}
            /\ GivenEntries(renderOptions) = {}
            /\ modelConfigBase(modelConfigs,
                   selectedModel(renderOptions, parsedMetadata, defaultModel)) = <<>>)
           => renderOut.value["config"] = <<>>

\* options.config.safety.level is undefined: level is dropped and safety
\* stays as an empty mapping; name, undefined in the options, is dropped.
C26_Witness ==
    /\ MetadataReturned
    /\ renderOptions # Undefined
    /\ Has(renderOptions.val, "name") /\ renderOptions.val["name"] = Undefined
    /\ Has(renderOptions.val, "config")
    /\ renderOptions.val["config"] = ("safety" :> ("level" :> Undefined))
    /\ ~Has(renderOut.value, "name")
    /\ renderOut.value["config"]["safety"] = <<>>


====
